---- MODULE Spec2Model ----
(***************************************************************************)
(* Model of the action-graph ordering resolver (update_action and          *)
(* graph_update_action) of the Pacemaker scheduler.                        *)
(*                                                                         *)
(* update_action is recursive; the model keeps the C call stack as the     *)
(* sequence `stack' of frames, one frame per active update_action call,    *)
(* each with its program position (pc) and locals.                         *)
(***************************************************************************)
EXTENDS Naturals, Integers, Sequences, FiniteSets, TLC

VARIABLES
  world,                     \* the immutable attributes of actions and resources
  flags,                     \* action -> pe_action_flags of the action
  runnable_before,           \* action -> then->runnable_before
  required_runnable_before,  \* action -> then->required_runnable_before
  wrappers,                  \* edge id -> pe_action_wrapper_t (first, then, type)
  actions_before,            \* action -> list of edge ids (then->actions_before)
  actions_after,             \* action -> list of edge ids (first->actions_after)
  rsc_flags,                 \* resource -> flags of the resource
  stack,                     \* call stack of update_action frames
  root,                      \* the action the caller runs update_action on
  ncalls,                    \* number of calls the caller has made
  diverged,                  \* the recursion re-entered a state it is already in
  hist                       \* observations of the run (not program state)

vars == <<world, flags, runnable_before, required_runnable_before, wrappers,
          actions_before, actions_after, rsc_flags, stack, root, ncalls,
          diverged, hist>>

----------------------------------------------------------------------------
(* Bounds of the model *)

MaxRequired == 2

MaxRunnableBefore == 5

MaxDepth == 14

MaxCalls == 2

MaxEdges == 2

----------------------------------------------------------------------------
(* Vocabulary *)

Actions == {"a1", "a2", "a3"}

NoRsc == "no_rsc"

NoNode == "no_node"

NoAction == "no_action"

\* a NULL crm_time_t pointer, or an attribute that is not there
NullTime == -1

\* an attribute that does not parse as a date/time
InvalidTime == -2

\* a crm_time_t object none of whose fields is set
UndefinedTime == -3

Nodes == {"n1", "n2"}

Resources == {"r1", "r2"}

pe_order_none == {}

pe_graph_none == {}

ActionFlags == {"OPTIONAL", "RUNNABLE", "PSEUDO", "PRINT_ALWAYS", "REQUIRES_ANY"}

OrderKinds == {"IMPLIES_THEN", "IMPLIES_THEN_ON_NODE", "IMPLIES_FIRST",
               "PROMOTED_IMPLIES_FIRST", "RESTART", "ONE_OR_MORE", "PROBE",
               "RUNNABLE_LEFT", "IMPLIES_FIRST_MIGRATABLE", "PSEUDO_LEFT",
               "OPTIONAL", "ASYMMETRICAL", "IMPLIES_THEN_PRINTED",
               "IMPLIES_FIRST_PRINTED", "THEN_CANCELS_FIRST", "SAME_NODE"}

GraphFlags == {"UPDATED_FIRST", "UPDATED_THEN", "DISABLE"}

\* resource variants, ordered as the enum is
pe_native == 1

pe_group == 2

pe_clone == 3

pe_container == 4

RscOf(a) == world.rsc[a]

NodeOf(a) == world.node[a]

TaskOf(a) == world.uuid[a].task

pe_rsc_is_clone(r) == world.variant[r] = pe_clone

----------------------------------------------------------------------------
(* Lists of wrappers: a list is a sequence of edge ids, a position in a    *)
(* list is the edge id of the list node, 0 is the NULL pointer.            *)

Head0(s) == IF s = <<>> THEN 0 ELSE s[1]

NextIn(s, id) ==
  IF \E i \in 1..Len(s) : s[i] = id
    THEN LET i == CHOOSE j \in 1..Len(s) : s[j] = id
         IN  IF i < Len(s) THEN s[i + 1] ELSE 0
    ELSE 0

----------------------------------------------------------------------------
(* Resource methods and helpers that update_action calls *)

\* rsc->cmds->action_flags(action, node): a clone may be runnable somewhere
\* and not runnable on the given node, optional somewhere and required on
\* the given node.
ActionFlagsHook(fl, a, node) ==
  IF node # NoNode /\ pe_rsc_is_clone(RscOf(a))
    THEN (fl[a] \ (IF node \in world.unrunnable_on[a] THEN {"RUNNABLE"} ELSE {}))
               \ (IF node \in world.required_on[a] THEN {"OPTIONAL"} ELSE {})
    ELSE fl[a]

\* the function without lines 65-68
action_flags_for_ordering_NoRestore(fl, a, node) ==
  IF RscOf(a) = NoRsc
    THEN fl[a]
    ELSE LET f0 == ActionFlagsHook(fl, a, NoNode) IN
         IF node = NoNode \/ ~pe_rsc_is_clone(RscOf(a))
           THEN f0
           ELSE ActionFlagsHook(fl, a, node)

\* action_flags_for_ordering(action, node)
action_flags_for_ordering(fl, a, node) ==
  IF RscOf(a) = NoRsc
    THEN fl[a]
    ELSE LET f0 == ActionFlagsHook(fl, a, NoNode) IN
         IF node = NoNode \/ ~pe_rsc_is_clone(RscOf(a))
           THEN f0
           ELSE LET runnable == "RUNNABLE" \in f0
                    f1 == ActionFlagsHook(fl, a, node)
                IN  IF runnable /\ "RUNNABLE" \notin f1
                      THEN f1 \cup {"RUNNABLE"}
                      ELSE f1

\* enum action_tasks, in the order of the enum (no_action = 0)
TaskOrder == <<"monitor", "stop", "stopped", "start", "running", "notify",
               "notified", "promote", "promoted", "demote", "demoted",
               "shutdown", "fence">>

text2task(t) ==
  IF \E i \in 1..Len(TaskOrder) : TaskOrder[i] = t
    THEN CHOOSE i \in 1..Len(TaskOrder) : TaskOrder[i] = t
    ELSE 0

task2text(n) == IF n \in 1..Len(TaskOrder) THEN TaskOrder[n] ELSE NoAction

\* strstr(old_uuid, "notify") != NULL: the text is in the task "notify", in
\* every notify key and in the ids of the resources of notify_named (the
\* task "notified" does not hold it)
ContainsNotify(u) ==
  \/ u.task = "notify"
  \/ u.form # "op"
  \/ u.rid \in world.notify_named

pcmk__op_key(rid, task, interval) ==
  [rid |-> rid, task |-> task, interval |-> interval, form |-> "op"]

pcmk__notify_key(rid, ntype, task) ==
  [rid |-> rid, task |-> task, interval |-> 0, form |-> ntype]

\* the switch without the decrement of the completed tasks
ConvertedTask_NoDecrement(t) ==
  LET task == text2task(t) IN
  CASE task2text(task) \in {"stop", "start", "notify", "promote", "demote",
                            "stopped", "running", "notified", "promoted",
                            "demoted"} -> task
    [] OTHER -> 0

\* the value of `task' after the switch of convert_non_atomic_uuid
ConvertedTask(t) ==
  LET task == text2task(t) IN
  CASE task2text(task) \in {"stop", "start", "notify", "promote", "demote"} -> task
    [] task2text(task) \in {"stopped", "running", "notified", "promoted", "demoted"} -> task - 1
    [] OTHER -> 0

\* the conversion without the test of the interval
convert_non_atomic_uuid_AnyInterval(old_uuid, rsc, allow_notify) ==
  IF ContainsNotify(old_uuid) THEN old_uuid
  ELSE IF world.variant[rsc] < pe_group THEN old_uuid
  ELSE LET task == ConvertedTask(old_uuid.task) IN
       IF task # 0
         THEN IF "NOTIFY" \in rsc_flags[rsc] /\ allow_notify
                THEN pcmk__notify_key(old_uuid.rid, "confirmed-post", task2text(task + 1))
                ELSE pcmk__op_key(old_uuid.rid, task2text(task + 1), 0)
         ELSE old_uuid

convert_non_atomic_uuid(old_uuid, rsc, allow_notify) ==
  IF ContainsNotify(old_uuid) THEN old_uuid
  ELSE IF world.variant[rsc] < pe_group THEN old_uuid
  ELSE IF old_uuid.interval > 0 THEN old_uuid
  ELSE LET task == ConvertedTask(old_uuid.task) IN
       IF task # 0
         THEN IF "NOTIFY" \in rsc_flags[rsc] /\ allow_notify
                THEN pcmk__notify_key(old_uuid.rid, "confirmed-post", task2text(task + 1))
                ELSE pcmk__op_key(old_uuid.rid, task2text(task + 1), 0)
         ELSE old_uuid

\* find_first_action(rsc->actions, uuid, NULL, NULL)
find_first_action(rsc, uuid) ==
  IF \E b \in Actions : RscOf(b) = rsc /\ world.uuid[b] = uuid
    THEN CHOOSE b \in Actions : RscOf(b) = rsc /\ world.uuid[b] = uuid
    ELSE NoAction

\* the function without the fallback of lines 176-181: the result of the
\* lookup is returned as it is
rsc_expand_action_NoFallback(a) ==
  LET rsc == RscOf(a) IN
  IF rsc = NoRsc THEN a
  ELSE LET parent == world.parent[rsc]
           notify == IF parent = NoRsc
                        \/ (pe_rsc_is_clone(rsc) /\ world.variant[parent] = pe_container)
                       THEN "NOTIFY" \in rsc_flags[rsc]
                       ELSE FALSE
       IN  IF world.variant[rsc] >= pe_group
             THEN find_first_action(rsc,
                    convert_non_atomic_uuid(world.uuid[a], rsc, notify))
             ELSE a

rsc_expand_action(a) ==
  LET rsc == RscOf(a) IN
  IF rsc = NoRsc THEN a
  ELSE LET parent == world.parent[rsc]
           notify == IF parent = NoRsc
                        \/ (pe_rsc_is_clone(rsc) /\ world.variant[parent] = pe_container)
                       THEN "NOTIFY" \in rsc_flags[rsc]
                       ELSE FALSE
       IN  IF world.variant[rsc] >= pe_group
             THEN LET uuid == convert_non_atomic_uuid(world.uuid[a], rsc, notify)
                      result == find_first_action(rsc, uuid)
                  IN  IF result = NoAction THEN a ELSE result
             ELSE a

\* is_parent(then->rsc, first->rsc)
is_parent(then_rsc, first_rsc) == world.parent[first_rsc] = then_rsc

\* rsc->fns->location(rsc, NULL, FALSE)
location(rsc) == world.location[rsc]

----------------------------------------------------------------------------
(* The edge evaluator, graph_update_action.  Its rules run in sequence on  *)
(* a record s: flags and rb are the actions' flags and runnable_before,    *)
(* type is the local variable, otype is order->type, changed the result.   *)

ClearFlag(s, a, f) == [s EXCEPT !.flags[a] = @ \ {f}]

SetFlag(s, a, f) == [s EXCEPT !.flags[a] = @ \cup {f}]

Report(s, bit) == [s EXCEPT !.changed = @ \cup {bit}]

\* the counter left as it is
Increment_Not(n) == n

\* then->runnable_before++ (the counter is capped at MaxRunnableBefore)
Increment(n) == IF n < MaxRunnableBefore THEN n + 1 ELSE n

\* the rule without the comparison with required_runnable_before
OneOrMoreFallback_NoThreshold(s, first, then, first_flags) ==
  IF "RUNNABLE" \in first_flags
    THEN LET s1 == [s EXCEPT !.rb[then] = Increment(@)] IN
         IF "RUNNABLE" \notin s1.flags[then]
           THEN Report(SetFlag(s1, then, "RUNNABLE"), "UPDATED_THEN")
           ELSE s1
    ELSE s

\* ONE_OR_MORE for a `then' without a resource
OneOrMoreFallback(s, first, then, first_flags) ==
  IF "RUNNABLE" \in first_flags
    THEN LET s1 == [s EXCEPT !.rb[then] = Increment(@)] IN
         IF s1.rb[then] >= required_runnable_before[then]
            /\ "RUNNABLE" \notin s1.flags[then]
           THEN Report(SetFlag(s1, then, "RUNNABLE"), "UPDATED_THEN")
           ELSE s1
    ELSE s

\* rsc->cmds->update_actions(first, then, node, flags, filter, type, data_set)
UpdateActionsHook(s, first, then, node, fl, filter, kind) ==
  CASE kind = "IMPLIES_THEN" ->
         IF "OPTIONAL" \notin fl /\ "OPTIONAL" \in s.flags[then]
           THEN Report(ClearFlag(s, then, "OPTIONAL"), "UPDATED_THEN")
           ELSE s
    [] kind = "RESTART" ->
         LET s1 == IF "OPTIONAL" \notin fl /\ "OPTIONAL" \in s.flags[then]
                     THEN Report(ClearFlag(s, then, "OPTIONAL"), "UPDATED_THEN")
                     ELSE s
         IN  IF "RUNNABLE" \notin fl /\ "RUNNABLE" \in s1.flags[then]
               THEN Report(ClearFlag(s1, then, "RUNNABLE"), "UPDATED_THEN")
               ELSE s1
    [] kind \in {"IMPLIES_FIRST", "PROMOTED_IMPLIES_FIRST"} ->
         IF /\ "OPTIONAL" \notin s.flags[then]
            /\ "RUNNABLE" \in s.flags[first]
            /\ (kind = "PROMOTED_IMPLIES_FIRST" => TaskOf(then) = "promote")
           THEN Report(ClearFlag(s, first, "RUNNABLE"), "UPDATED_FIRST")
           ELSE s
    [] kind = "ONE_OR_MORE" -> OneOrMoreFallback(s, first, then, fl)
    [] kind \in {"RUNNABLE_LEFT", "ASYMMETRICAL", "PSEUDO_LEFT"} ->
         IF /\ "RUNNABLE" \notin fl
            /\ "RUNNABLE" \in s.flags[then]
            /\ (kind = "PSEUDO_LEFT" => "PSEUDO" \in fl)
           THEN Report(ClearFlag(s, then, "RUNNABLE"), "UPDATED_THEN")
           ELSE s
    [] OTHER -> s

\* the rewrite done on order->type, with IMPLIES_THEN set outside the test
RewriteOnNode_InPlace(s) ==
  LET t == (s.type \ {"IMPLIES_THEN_ON_NODE"}) \cup {"IMPLIES_THEN"}
  IN  [s EXCEPT !.type = t, !.otype = t]

\* lines 197-217: only the local type and the local node are rewritten
RewriteOnNode(s) ==
  IF "IMPLIES_THEN_ON_NODE" \in s.type
    THEN [s EXCEPT !.type = (@ \ {"IMPLIES_THEN_ON_NODE"}) \cup {"IMPLIES_THEN"}]
    ELSE s

\* the node without the swap of line 212
EvalNode_ThenNode(type, first, node) == node

EvalNode(type, first, node) ==
  IF "IMPLIES_THEN_ON_NODE" \in type THEN NodeOf(first) ELSE node

\* the rule without the report of the change
ImpliesThenFallback_NoReport(s, first, then, first_flags) ==
  IF "OPTIONAL" \notin first_flags /\ "OPTIONAL" \in s.flags[then]
    THEN ClearFlag(s, then, "OPTIONAL")
    ELSE s

ImpliesThenFallback(s, first, then, first_flags) ==
  IF "OPTIONAL" \notin first_flags /\ "OPTIONAL" \in s.flags[then]
    THEN Report(ClearFlag(s, then, "OPTIONAL"), "UPDATED_THEN")
    ELSE s

RuleImpliesThen(s, first, then, node, first_flags) ==
  IF "IMPLIES_THEN" \in s.type
    THEN IF RscOf(then) # NoRsc
           THEN UpdateActionsHook(s, first, then, node,
                                  first_flags \cap {"OPTIONAL"}, {"OPTIONAL"},
                                  "IMPLIES_THEN")
           ELSE ImpliesThenFallback(s, first, then, first_flags)
    ELSE s

RuleRestart(s, first, then, node, first_flags) ==
  IF "RESTART" \in s.type /\ RscOf(then) # NoRsc
    THEN UpdateActionsHook(s, first, then, node, first_flags,
                           {"OPTIONAL", "RUNNABLE"}, "RESTART")
    ELSE s

\* the rule without the report of the change
ImpliesFirstFallback_NoReport(s, first, then, first_flags) ==
  IF "OPTIONAL" \notin first_flags /\ "RUNNABLE" \in s.flags[first]
    THEN ClearFlag(s, first, "RUNNABLE")
    ELSE s

ImpliesFirstFallback(s, first, then, first_flags) ==
  IF "OPTIONAL" \notin first_flags /\ "RUNNABLE" \in s.flags[first]
    THEN Report(ClearFlag(s, first, "RUNNABLE"), "UPDATED_FIRST")
    ELSE s

RuleImpliesFirst(s, first, then, node, first_flags) ==
  IF "IMPLIES_FIRST" \in s.type
    THEN IF RscOf(first) # NoRsc
           THEN UpdateActionsHook(s, first, then, node, first_flags,
                                  {"OPTIONAL"}, "IMPLIES_FIRST")
           ELSE ImpliesFirstFallback(s, first, then, first_flags)
    ELSE s

RulePromotedImpliesFirst(s, first, then, node, first_flags) ==
  IF "PROMOTED_IMPLIES_FIRST" \in s.type /\ RscOf(then) # NoRsc
    THEN UpdateActionsHook(s, first, then, node,
                           first_flags \cap {"OPTIONAL"}, {"OPTIONAL"},
                           "PROMOTED_IMPLIES_FIRST")
    ELSE s

\* the rule without the branch for a then that has no resource
RuleOneOrMore_OnlyRsc(s, first, then, node, first_flags) ==
  IF "ONE_OR_MORE" \in s.type /\ RscOf(then) # NoRsc
    THEN UpdateActionsHook(s, first, then, node, first_flags,
                           {"RUNNABLE"}, "ONE_OR_MORE")
    ELSE s

RuleOneOrMore(s, first, then, node, first_flags) ==
  IF "ONE_OR_MORE" \in s.type
    THEN IF RscOf(then) # NoRsc
           THEN UpdateActionsHook(s, first, then, node, first_flags,
                                  {"RUNNABLE"}, "ONE_OR_MORE")
           ELSE OneOrMoreFallback(s, first, then, first_flags)
    ELSE s

\* first->rsc->running_on != NULL
RunningSomewhere(first) ==
  RscOf(first) # NoRsc /\ world.running_on[RscOf(first)]

\* the rule with the edge disabled for the rest of the evaluation only:
\* line 307 is left out
RuleProbe_LocalOnly(s, first, then, node, first_flags) ==
  IF RscOf(then) # NoRsc /\ "PROBE" \in s.type
    THEN IF "RUNNABLE" \notin first_flags /\ RunningSomewhere(first)
           THEN [s EXCEPT !.type = pe_order_none]
           ELSE UpdateActionsHook(s, first, then, node, first_flags,
                                  {"RUNNABLE"}, "RUNNABLE_LEFT")
    ELSE s

RuleProbe(s, first, then, node, first_flags) ==
  IF RscOf(then) # NoRsc /\ "PROBE" \in s.type
    THEN IF "RUNNABLE" \notin first_flags /\ RunningSomewhere(first)
           THEN [s EXCEPT !.type = pe_order_none, !.otype = pe_order_none]
           ELSE UpdateActionsHook(s, first, then, node, first_flags,
                                  {"RUNNABLE"}, "RUNNABLE_LEFT")
    ELSE s

RunnableLeftFallback(s, first, then, first_flags) ==
  IF "RUNNABLE" \notin first_flags /\ "RUNNABLE" \in s.flags[then]
    THEN Report(ClearFlag(s, then, "RUNNABLE"), "UPDATED_THEN")
    ELSE s

RuleRunnableLeft(s, first, then, node, first_flags) ==
  IF "RUNNABLE_LEFT" \in s.type
    THEN IF RscOf(then) # NoRsc
           THEN UpdateActionsHook(s, first, then, node, first_flags,
                                  {"RUNNABLE"}, "RUNNABLE_LEFT")
           ELSE RunnableLeftFallback(s, first, then, first_flags)
    ELSE s

\* the four kinds that only delegate to the resource method (lines 336-378)
RuleDelegated(s, first, then, node, first_flags, kind, filter) ==
  IF kind \in s.type /\ RscOf(then) # NoRsc
    THEN UpdateActionsHook(s, first, then, node, first_flags, filter, kind)
    ELSE s

RuleImpliesThenPrinted(s, first, then, first_flags) ==
  IF /\ "RUNNABLE" \in s.flags[first]
     /\ "IMPLIES_THEN_PRINTED" \in s.type
     /\ "OPTIONAL" \notin first_flags
    THEN SetFlag(s, then, "PRINT_ALWAYS")
    ELSE s

\* the rule without the test of the kind
RuleImpliesFirstPrinted_AnyKind(s, first, then, then_flags) ==
  IF "OPTIONAL" \notin then_flags
    THEN SetFlag(s, first, "PRINT_ALWAYS")
    ELSE s

RuleImpliesFirstPrinted(s, first, then, then_flags) ==
  IF "IMPLIES_FIRST_PRINTED" \in s.type /\ "OPTIONAL" \notin then_flags
    THEN SetFlag(s, first, "PRINT_ALWAYS")
    ELSE s

RuleBlockedStop(s, first, then) ==
  IF /\ s.type \cap {"IMPLIES_THEN", "IMPLIES_FIRST", "RESTART"} # {}
     /\ RscOf(first) # NoRsc
     /\ TaskOf(first) = "stop"
     /\ "MANAGED" \notin rsc_flags[RscOf(first)]
     /\ "BLOCK" \in rsc_flags[RscOf(first)]
     /\ "RUNNABLE" \notin s.flags[first]
     /\ "RUNNABLE" \in s.flags[then]
    THEN Report(ClearFlag(s, then, "RUNNABLE"), "UPDATED_THEN")
    ELSE s

graph_update_action(first, then, node0, first_flags, then_flags, order) ==
  LET type0 == wrappers[order].type
      node == EvalNode(type0, first, node0)
      s0  == [flags |-> flags, rb |-> runnable_before, type |-> type0,
              otype |-> type0, changed |-> pe_graph_none]
      s1  == RewriteOnNode(s0)
      s2  == RuleImpliesThen(s1, first, then, node, first_flags)
      s3  == RuleRestart(s2, first, then, node, first_flags)
      s4  == RuleImpliesFirst(s3, first, then, node, first_flags)
      s5  == RulePromotedImpliesFirst(s4, first, then, node, first_flags)
      s6  == RuleOneOrMore(s5, first, then, node, first_flags)
      s7  == RuleProbe(s6, first, then, node, first_flags)
      s8  == RuleRunnableLeft(s7, first, then, node, first_flags)
      s9  == RuleDelegated(s8, first, then, node, first_flags,
                           "IMPLIES_FIRST_MIGRATABLE", {"OPTIONAL"})
      s10 == RuleDelegated(s9, first, then, node, first_flags,
                           "PSEUDO_LEFT", {"OPTIONAL"})
      s11 == RuleDelegated(s10, first, then, node, first_flags,
                           "OPTIONAL", {"RUNNABLE"})
      s12 == RuleDelegated(s11, first, then, node, first_flags,
                           "ASYMMETRICAL", {"RUNNABLE"})
      s13 == RuleImpliesThenPrinted(s12, first, then, first_flags)
      s14 == RuleImpliesFirstPrinted(s13, first, then, then_flags)
  IN  RuleBlockedStop(s14, first, then)

----------------------------------------------------------------------------
(* order_actions(first, then, type): attach a new edge unless first is     *)
(* already ordered before then.  New wrappers go to the head of the lists. *)

Ordered(first, then) ==
  \E e \in 1..Len(wrappers) : wrappers[e].first = first /\ wrappers[e].then = then

order_actions(first, then, type) == ~Ordered(first, then)

----------------------------------------------------------------------------
(* The call stack *)

Depth == Len(stack)

Top == stack[Depth]

SetTop(f) == [stack EXCEPT ![Depth] = f]

Snapshot == <<flags, runnable_before, required_runnable_before, wrappers,
              actions_before, actions_after, rsc_flags>>

NewFrame(a) ==
  [then |-> a, pc |-> "preamble", lpc |-> 0, lpc2 |-> 0, first |-> NoAction,
   changed |-> pe_graph_none, last_flags |-> {}, entry |-> Snapshot]

\* A call update_action(a) made while a call on the same action that began
\* in the same program state is still active repeats that call's steps and
\* makes the same call again: the recursion never ends.
Reenters(s, a) ==
  \E i \in 1..Len(s) : s[i].then = a /\ s[i].entry = Snapshot

\* update_action(a, data_set) called from the stack s
Call(s, a) ==
  /\ Len(s) < MaxDepth
  /\ IF Reenters(s, a)
       THEN diverged' = TRUE /\ stack' = s
       ELSE diverged' = diverged /\ stack' = Append(s, NewFrame(a))

Preds(a) == {wrappers[e].first : e \in {x \in 1..Len(wrappers) : wrappers[x].then = a}}

Succs(a) == {wrappers[e].then : e \in {x \in 1..Len(wrappers) : wrappers[x].first = a}}

Running == Depth > 0 /\ ~diverged

----------------------------------------------------------------------------
(* Observations of the run.  nset counts how often the cancellation step   *)
(* turned a required action optional; the owe_ sets hold the actions that  *)
(* still are to be re-processed by update_action; made_runnable and        *)
(* made_optional hold the actions on which a step has set the flag;        *)
(* settled is the outcome of the run so far when the caller calls again;   *)
(* none_seen holds the disabled edges the evaluator was called on;         *)
(* stage, allow, converted, once and twice are the position and the        *)
(* results of a run of the expansion alone; peer and effective are the     *)
(* node and the result of a call of action_flags_for_ordering;             *)
(* first_ever and succ_ever hold the actions that once were in owe_first   *)
(* and owe_succ; born holds the type each wrapper was created with;        *)
(* blocked counts the calls of pcmk__block_colocated_starts; owe_then       *)
(* holds the actions that got a redirected edge and are to be re-processed; *)
(* owe_rerun holds the pairs of a call's depth and an action that the call  *)
(* is to run update_action on for a report of UPDATED_FIRST;                *)
(* rc and next_change are the results of a date expression.                 *)

HistInit(w) ==
  [nset |-> 0,
   cancel_edges |-> Cardinality({e \in 1..Len(w) : "THEN_CANCELS_FIRST" \in w[e].type}),
   owe_both |-> {}, owe_first |-> {}, owe_nbrs |-> {}, owe_succ |-> {},
   owe_then |-> {}, owe_rerun |-> {},
   made_runnable |-> {}, made_optional |-> {}, blocked |-> 0,
   first_ever |-> {}, succ_ever |-> {},
   born |-> [e \in 1..Len(w) |-> w[e].type],
   settled |-> <<>>, none_seen |-> {},
   stage |-> "given", allow |-> FALSE, converted |-> <<>>,
   once |-> NoAction, twice |-> NoAction,
   peer |-> NoNode, effective |-> {},
   rc |-> "none", next_change |-> NullTime]

\* what a call of update_action may change: the flags, the counters and
\* the kinds of the edges
Outcome ==
  <<flags, runnable_before, required_runnable_before,
    [e \in 1..Len(wrappers) |-> wrappers[e].type]>>

CancelEdges ==
  Cardinality({e \in 1..Len(wrappers) : "THEN_CANCELS_FIRST" \in wrappers[e].type})

Mutated(fl1, fl2) == {a \in Actions : fl1[a] # fl2[a]}

Neighbours(S) == UNION {Preds(a) \cup Succs(a) : a \in S}

Gained(fl1, fl2, f) == {a \in Actions : f \notin fl1[a] /\ f \in fl2[a]}

\* a step that is no edge evaluation changed the flags from fl1 to fl2
HistMutation(h, fl1, fl2) ==
  [h EXCEPT !.owe_nbrs = @ \cup Neighbours(Mutated(fl1, fl2)),
            !.made_runnable = @ \cup Gained(fl1, fl2, "RUNNABLE"),
            !.made_optional = @ \cup Gained(fl1, fl2, "OPTIONAL")]

\* update_action(a) begins: a is being re-processed
HistCall(h, a) ==
  [h EXCEPT !.owe_both = @ \ {a}, !.owe_first = @ \ {a},
            !.owe_nbrs = @ \ {a}, !.owe_succ = @ \ {a},
            !.owe_then = @ \ {a}]

Core(f) == f \cap {"OPTIONAL", "RUNNABLE"}

\* graph_update_action(first, then) changed the flags from fl1 to fl2
HistEval(h, first, then, fl1, fl2) ==
  LET firstCore == Core(fl1[first]) # Core(fl2[first])
      thenCore  == /\ Core(fl1[then]) # Core(fl2[then])
                   /\ "REQUIRES_ANY" \notin fl1[then]
  IN  [h EXCEPT
         !.owe_both = IF fl1[first] # fl2[first] \/ fl1[then] # fl2[then]
                        THEN @ \cup {first, then} ELSE @,
         !.owe_first = @ \cup (IF firstCore THEN {first, then} ELSE {})
                         \cup (IF thenCore THEN {then} ELSE {}),
         !.owe_nbrs = @ \cup Neighbours(Mutated(fl1, fl2)),
         !.made_runnable = @ \cup Gained(fl1, fl2, "RUNNABLE"),
         !.made_optional = @ \cup Gained(fl1, fl2, "OPTIONAL"),
         !.first_ever = @ \cup (IF firstCore THEN {first, then} ELSE {})
                          \cup (IF thenCore THEN {then} ELSE {}),
         !.succ_ever = @ \cup (IF firstCore THEN Succs(first) ELSE {})
                         \cup (IF thenCore THEN Succs(then) ELSE {}),
         !.owe_succ = @ \cup (IF firstCore THEN Succs(first) ELSE {})
                        \cup (IF thenCore THEN Succs(then) ELSE {})]

----------------------------------------------------------------------------
(* The steps of update_action, taken by the innermost active call *)

\* the caller runs update_action on the root action
Start ==
  /\ Depth = 0 /\ ~diverged
  /\ ncalls < MaxCalls
  /\ ncalls' = ncalls + 1
  /\ Call(stack, root)
  /\ hist' = [hist EXCEPT !.owe_both = {}, !.owe_first = {},
                          !.owe_nbrs = {}, !.owe_succ = {},
                          !.owe_then = {}, !.owe_rerun = {},
                          !.first_ever = {}, !.succ_ever = {},
                          !.nset = 0, !.cancel_edges = CancelEdges,
                          !.settled = Outcome]
  /\ UNCHANGED <<world, flags, runnable_before, required_runnable_before,
                 wrappers, actions_before, actions_after, rsc_flags, root>>

\* lines 436-468: locals, the REQUIRES_ANY reset, the head of the loop
Preamble ==
  /\ Running /\ Top.pc = "preamble"
  /\ LET then == Top.then
         any  == "REQUIRES_ANY" \in flags[then]
         lpc  == Head0(actions_before[then])
     IN  /\ runnable_before' =
              IF any THEN [runnable_before EXCEPT ![then] = 0] ELSE runnable_before
         /\ required_runnable_before' =
              IF any /\ required_runnable_before[then] = 0
                THEN [required_runnable_before EXCEPT ![then] = 1]
                ELSE required_runnable_before
         /\ flags' = IF any THEN [flags EXCEPT ![then] = @ \ {"RUNNABLE"}] ELSE flags
         /\ stack' = SetTop([Top EXCEPT !.last_flags = flags[then],
                                        !.lpc = lpc,
                                        !.pc = IF lpc = 0 THEN "post" ELSE "filter"])
         /\ hist' = HistMutation(hist, flags, flags')
  /\ UNCHANGED <<world, wrappers, actions_before, actions_after, rsc_flags,
                 root, ncalls, diverged>>

\* the node without lines 478-492: the action's own node
NodeForOrdering_OwnNode(first) == NodeOf(first)

\* lines 478-492: the node of a group's start action is the group's location
NodeForOrdering(first) ==
  IF RscOf(first) # NoRsc /\ world.variant[RscOf(first)] = pe_group
     /\ TaskOf(first) = "start"
    THEN location(RscOf(first))
    ELSE NodeOf(first)

\* the frame with the loop advanced to the edge after lpc
Advance(f) ==
  LET nxt == NextIn(actions_before[f.then], f.lpc)
  IN  [f EXCEPT !.lpc = nxt, !.pc = IF nxt = 0 THEN "post" ELSE "filter"]

\* the test on the nodes the two actions are bound to themselves
SameNodeMismatch_OwnNodes(e) ==
  LET first_node == NodeOf(wrappers[e].first)
      then_node  == NodeOf(wrappers[e].then)
  IN  /\ "SAME_NODE" \in wrappers[e].type
      /\ first_node # NoNode /\ then_node # NoNode
      /\ first_node # then_node

\* lines 493-496: the edge applies on one node and the nodes differ
SameNodeMismatch(e) ==
  LET first_node == NodeForOrdering(wrappers[e].first)
      then_node  == NodeForOrdering(wrappers[e].then)
  IN  /\ "SAME_NODE" \in wrappers[e].type
      /\ first_node # NoNode /\ then_node # NoNode
      /\ first_node # then_node

\* lines 469-504: the same-node filter
Filter ==
  /\ Running /\ Top.pc = "filter"
  /\ IF SameNodeMismatch(Top.lpc)
       THEN /\ wrappers' = [wrappers EXCEPT ![Top.lpc].type = pe_order_none]
            /\ stack' = SetTop(Advance(Top))
       ELSE /\ wrappers' = wrappers
            /\ stack' = SetTop([Top EXCEPT !.pc = "cancel"])
  /\ UNCHANGED <<world, flags, runnable_before, required_runnable_before,
                 actions_before, actions_after, rsc_flags, root, ncalls,
                 diverged, hist>>

\* the test without the condition that then is required
Cancels_OptionalThen(e, then) ==
  /\ RscOf(wrappers[e].first) # NoRsc
  /\ "THEN_CANCELS_FIRST" \in wrappers[e].type

\* lines 508-509: the condition of the cancellation
Cancels(e, then) ==
  /\ RscOf(wrappers[e].first) # NoRsc
  /\ "THEN_CANCELS_FIRST" \in wrappers[e].type
  /\ "OPTIONAL" \notin flags[then]

\* the change bits with line 506 left out
ClearUpdatedFirst_Kept(changed) == changed

\* line 506: UPDATED_FIRST of an earlier edge is forgotten
ClearUpdatedFirst(changed) == changed \ {"UPDATED_FIRST"}

\* lines 506-518: forget UPDATED_FIRST, a required then cancels first
Cancel ==
  /\ Running /\ Top.pc = "cancel"
  /\ LET first == wrappers[Top.lpc].first
         hit   == Cancels(Top.lpc, Top.then)
     IN  /\ flags' = IF hit THEN [flags EXCEPT ![first] = @ \cup {"OPTIONAL"}]
                            ELSE flags
         /\ rsc_flags' = IF hit /\ TaskOf(first) = "reload-agent"
                           THEN [rsc_flags EXCEPT ![RscOf(first)] = @ \ {"RELOAD"}]
                           ELSE rsc_flags
         /\ hist' = [HistMutation(hist, flags, flags') EXCEPT
                       !.nset = IF flags' # flags THEN @ + 1 ELSE @]
  /\ stack' = SetTop([Top EXCEPT !.changed = ClearUpdatedFirst(@),
                                 !.pc = "eval"])
  /\ UNCHANGED <<world, runnable_before, required_runnable_before, wrappers,
                 actions_before, actions_after, root, ncalls, diverged>>

\* lines 520-523: first is expanded when both actions have resources
Expanded(raw, then) ==
  IF /\ RscOf(raw) # NoRsc /\ RscOf(then) # NoRsc
     /\ RscOf(raw) # RscOf(then)
     /\ ~is_parent(RscOf(then), RscOf(raw))
    THEN rsc_expand_action(raw)
    ELSE raw

\* lines 520-590 for the edge at lpc: expansion, effective flags, the
\* evaluator or the redirected ordering, DISABLE, and UPDATED_FIRST
Eval ==
  /\ Running /\ Top.pc = "eval"
  /\ LET e           == Top.lpc
         then        == Top.then
         raw         == wrappers[e].first
         then_node   == NodeForOrdering(then)
         first_node  == NodeForOrdering(raw)
         first       == Expanded(raw, then)
         first_flags == action_flags_for_ordering(flags, first, then_node)
         then_flags  == action_flags_for_ordering(flags, then, first_node)
         evaluated   == first = raw
         s           == graph_update_action(first, then, NodeOf(then),
                                            first_flags, then_flags, e)
         attached    == ~evaluated /\ order_actions(first, then, wrappers[e].type)
         new         == Len(wrappers) + 1
         changed1    == IF evaluated THEN Top.changed \cup s.changed
                        ELSE IF attached
                          THEN Top.changed \cup {"UPDATED_THEN", "DISABLE"}
                          ELSE Top.changed
         disable     == "DISABLE" \in changed1
         changed2    == changed1 \ {"DISABLE"}
         w1          == IF evaluated THEN [wrappers EXCEPT ![e].type = s.otype]
                        ELSE IF attached
                          THEN Append(wrappers, [first |-> first, then |-> then,
                                                 type |-> wrappers[e].type])
                          ELSE wrappers
         frame       == [Top EXCEPT !.changed = changed2, !.first = first]
     IN  /\ flags' = IF evaluated THEN s.flags ELSE flags
         /\ runnable_before' = IF evaluated THEN s.rb ELSE runnable_before
         /\ wrappers' = IF disable THEN [w1 EXCEPT ![e].type = pe_order_none] ELSE w1
         /\ actions_before' = IF attached
                                THEN [actions_before EXCEPT ![then] = <<new>> \o @]
                                ELSE actions_before
         /\ actions_after' = IF attached
                               THEN [actions_after EXCEPT ![first] = <<new>> \o @]
                               ELSE actions_after
         /\ stack' = IF "UPDATED_FIRST" \in changed2
                       THEN SetTop([frame EXCEPT !.pc = "first_after",
                                                 !.lpc2 = Head0(actions_after'[first])])
                       ELSE SetTop(Advance(frame))
         /\ hist' = [HistEval(hist, first, then, flags, flags') EXCEPT
                       !.cancel_edges =
                          IF attached /\ "THEN_CANCELS_FIRST" \in wrappers[e].type
                            THEN @ + 1 ELSE @,
                       !.born = IF attached THEN Append(@, wrappers[e].type) ELSE @,
                       !.owe_then = IF attached THEN @ \cup {then} ELSE @,
                       !.owe_rerun =
                          IF "UPDATED_FIRST" \in changed2
                            THEN @ \cup {<<Depth, a>> : a \in
                                   {first} \cup
                                   {wrappers'[actions_after'[first][i]].then :
                                      i \in 1..Len(actions_after'[first])}}
                            ELSE @,
                       !.none_seen = IF evaluated /\ wrappers[e].type = pe_order_none
                                       THEN @ \cup {e} ELSE @]
  /\ UNCHANGED <<world, required_runnable_before, rsc_flags, root, ncalls,
                 diverged>>

\* lines 579-590: update_action on each action after first, then on first
FirstAfter ==
  /\ Running /\ Top.pc = "first_after"
  /\ LET callee == IF Top.lpc2 # 0 THEN wrappers[Top.lpc2].then ELSE Top.first
         frame  == IF Top.lpc2 # 0
                     THEN [Top EXCEPT
                             !.lpc2 = NextIn(actions_after[Top.first], Top.lpc2)]
                     ELSE Advance(Top)
     IN  /\ Call(SetTop(frame), callee)
         /\ hist' = [HistCall(hist, callee) EXCEPT
                       !.owe_rerun = @ \ {<<Depth, callee>>}]
  /\ UNCHANGED <<world, flags, runnable_before, required_runnable_before,
                 wrappers, actions_before, actions_after, rsc_flags, root,
                 ncalls>>

\* the change bits after lines 593-599
PostChanged(f) ==
  IF "REQUIRES_ANY" \in flags[f.then]
    THEN IF f.last_flags # flags[f.then]
           THEN f.changed \cup {"UPDATED_THEN"}
           ELSE f.changed \ {"UPDATED_THEN"}
    ELSE f.changed

\* the test without the flags at entry: then is not runnable now
LostRunnable_Now(f) == "RUNNABLE" \notin flags[f.then]

\* lines 604-605: then was runnable at entry and is not any more
LostRunnable(f) ==
  "RUNNABLE" \in f.last_flags /\ "RUNNABLE" \notin flags[f.then]

\* lines 593-608: the postamble up to the call update_action(then)
Post ==
  /\ Running /\ Top.pc = "post"
  /\ LET changed == PostChanged(Top)
         frame   == [Top EXCEPT !.changed = changed]
     IN  IF "UPDATED_THEN" \in changed
           THEN /\ Call(SetTop([frame EXCEPT !.pc = "then_after", !.lpc2 = -1]),
                        Top.then)
                /\ hist' = [HistCall(hist, Top.then) EXCEPT
                              !.blocked = IF LostRunnable(Top) THEN @ + 1 ELSE @]
           ELSE /\ stack' = SetTop([frame EXCEPT !.pc = "ret"])
                /\ UNCHANGED <<diverged, hist>>
  /\ UNCHANGED <<world, flags, runnable_before, required_runnable_before,
                 wrappers, actions_before, actions_after, rsc_flags, root,
                 ncalls>>

\* lines 609-613: update_action on each action after then
ThenAfter ==
  /\ Running /\ Top.pc = "then_after"
  /\ LET cur == IF Top.lpc2 = -1 THEN Head0(actions_after[Top.then]) ELSE Top.lpc2
     IN  IF cur = 0
           THEN /\ stack' = SetTop([Top EXCEPT !.pc = "ret", !.lpc2 = 0])
                /\ UNCHANGED <<diverged, hist>>
           ELSE /\ Call(SetTop([Top EXCEPT
                                  !.lpc2 = NextIn(actions_after[Top.then], cur)]),
                        wrappers[cur].then)
                /\ hist' = HistCall(hist, wrappers[cur].then)
  /\ UNCHANGED <<world, flags, runnable_before, required_runnable_before,
                 wrappers, actions_before, actions_after, rsc_flags, root,
                 ncalls>>

\* line 616: return FALSE
Return ==
  /\ Running /\ Top.pc = "ret"
  /\ stack' = SubSeq(stack, 1, Depth - 1)
  /\ UNCHANGED <<world, flags, runnable_before, required_runnable_before,
                 wrappers, actions_before, actions_after, rsc_flags, root,
                 ncalls, diverged, hist>>

Next ==
  \/ Start
  \/ Preamble
  \/ Filter
  \/ Cancel
  \/ Eval
  \/ FirstAfter
  \/ Post
  \/ ThenAfter
  \/ Return

----------------------------------------------------------------------------
(* The inputs: the actions and resources of a scheduler run, the ordering  *)
(* constraints between the actions and the flags the actions start with.   *)

Edge(f, t, k) == [first |-> f, then |-> t, type |-> k]

PseudoUuid == [rid |-> "", task |-> "pseudo", interval |-> 0, form |-> "op"]

NoResources ==
  [variant |-> [r \in Resources |-> pe_native],
   parent |-> [r \in Resources |-> NoRsc],
   location |-> [r \in Resources |-> NoNode],
   running_on |-> [r \in Resources |-> FALSE],
   rflags |-> [r \in Resources |-> {"MANAGED"}],
   notify_named |-> {}]

CoreChoices == SUBSET {"OPTIONAL", "RUNNABLE"}

\* three actions without a resource, a1 and a3 on one node, a2 on another
PseudoWorld ==
  [rsc |-> [a \in Actions |-> NoRsc],
   node |-> [a \in Actions |-> IF a = "a2" THEN "n2" ELSE "n1"],
   uuid |-> [a \in Actions |-> PseudoUuid],
   unrunnable_on |-> [a \in Actions |-> {}],
   res |-> NoResources,
   core |-> [a \in Actions |->
               IF a = "a2" THEN {{"OPTIONAL"}, {"OPTIONAL", "RUNNABLE"}}
               ELSE CoreChoices],
   required |-> {0, MaxRequired},
   edges |-> {Edge("a1", "a3", {"ONE_OR_MORE"}),
              Edge("a2", "a3", {"ONE_OR_MORE"}),
              Edge("a2", "a3", {"RUNNABLE_LEFT"}),
              Edge("a2", "a3", {"SAME_NODE", "RUNNABLE_LEFT"}),
              Edge("a1", "a3", {"IMPLIES_FIRST"}),
              Edge("a1", "a3", {"SAME_NODE", "IMPLIES_THEN"}),
              Edge("a1", "a3", {"IMPLIES_FIRST", "ONE_OR_MORE"}),
              Edge("a1", "a3", {"IMPLIES_THEN_PRINTED", "IMPLIES_FIRST_PRINTED"}),
              Edge("a3", "a2", {"IMPLIES_THEN"}),
              Edge("a3", "a1", {"RUNNABLE_LEFT"})}]

\* a1 is the reload of a primitive r1; a2 and a3 have no resource
MixedWorld ==
  [rsc |-> [a \in Actions |-> IF a = "a1" THEN "r1" ELSE NoRsc],
   node |-> [a \in Actions |-> IF a = "a2" THEN "n2" ELSE "n1"],
   uuid |-> [a \in Actions |->
               IF a = "a1" THEN pcmk__op_key("r1", "reload-agent", 0)
               ELSE PseudoUuid],
   unrunnable_on |-> [a \in Actions |-> {}],
   res |-> [NoResources EXCEPT !.rflags["r1"] = {"MANAGED", "RELOAD"}],
   core |-> [a \in Actions |-> CoreChoices],
   required |-> {0},
   edges |-> {Edge("a1", "a3", {"THEN_CANCELS_FIRST"}),
              Edge("a1", "a3", {"THEN_CANCELS_FIRST", "RUNNABLE_LEFT"}),
              Edge("a3", "a1", {"IMPLIES_THEN"}),
              Edge("a2", "a1", {"IMPLIES_THEN"}),
              Edge("a2", "a3", {"IMPLIES_FIRST"}),
              Edge("a2", "a3", {"IMPLIES_THEN"}),
              Edge("a2", "a3", {"RUNNABLE_LEFT"})}]

\* a1 and a2 are the start and running actions of a group r1 that is
\* located on n1, a3 is the start of a primitive r2 on n1
GroupWorld ==
  [rsc |-> [a \in Actions |-> IF a = "a3" THEN "r2" ELSE "r1"],
   node |-> [a \in Actions |->
               CASE a = "a1" -> NoNode [] a = "a2" -> "n2" [] OTHER -> "n1"],
   uuid |-> [a \in Actions |->
               CASE a = "a1" -> pcmk__op_key("r1", "start", 0)
                 [] a = "a2" -> pcmk__op_key("r1", "running", 0)
                 [] OTHER -> pcmk__op_key("r2", "start", 0)],
   unrunnable_on |-> [a \in Actions |-> {}],
   res |-> [NoResources EXCEPT !.variant["r1"] = pe_group,
                               !.location["r1"] = "n1",
                               !.running_on["r1"] = TRUE],
   core |-> [a \in Actions |-> CoreChoices],
   required |-> {0},
   edges |-> {Edge("a1", "a3", {"SAME_NODE", "IMPLIES_THEN"}),
              Edge("a1", "a3", {"THEN_CANCELS_FIRST", "IMPLIES_THEN"}),
              Edge("a1", "a3", {"RUNNABLE_LEFT"}),
              Edge("a2", "a3", {"PROBE"}),
              Edge("a2", "a3", {"SAME_NODE", "RUNNABLE_LEFT"}),
              Edge("a2", "a3", {"ONE_OR_MORE"}),
              Edge("a3", "a1", {"IMPLIES_THEN"})}]

\* the lists of at most MaxEdges constraints, no two between the same actions
Graphs(w) ==
  {g \in UNION {[1..n -> w.edges] : n \in 1..MaxEdges} :
     \A i, j \in DOMAIN g :
        i # j => <<g[i].first, g[i].then>> # <<g[j].first, g[j].then>>}

\* the ids of the wrappers of g in the list of action a, in list order
RECURSIVE ListOf(_, _, _, _)
ListOf(g, a, side, i) ==
  IF i > Len(g) THEN <<>>
  ELSE IF (IF side = "before" THEN g[i].then ELSE g[i].first) = a
    THEN <<i>> \o ListOf(g, a, side, i + 1)
    ELSE ListOf(g, a, side, i + 1)

\* the state after the scheduler has built the actions of world w; the
\* caller runs update_action on a3, which alone may carry REQUIRES_ANY
InitWorld(w) ==
  \E g \in Graphs(w) :
  \E core \in [Actions -> CoreChoices] :
  \E any \in BOOLEAN :
  \E req \in w.required :
    /\ \A a \in Actions : core[a] \in w.core[a]
    /\ world = [rsc |-> w.rsc, node |-> w.node, uuid |-> w.uuid,
                unrunnable_on |-> w.unrunnable_on,
                required_on |-> [a \in Actions |-> {}],
                variant |-> w.res.variant, parent |-> w.res.parent,
                location |-> w.res.location, running_on |-> w.res.running_on,
                notify_named |-> w.res.notify_named]
    /\ flags = [a \in Actions |->
                  core[a]
                  \cup (IF w.rsc[a] = NoRsc THEN {"PSEUDO"} ELSE {})
                  \cup (IF a = "a3" /\ any THEN {"REQUIRES_ANY"} ELSE {})]
    /\ runnable_before = [a \in Actions |-> 0]
    /\ required_runnable_before = [a \in Actions |-> IF a = "a3" THEN req ELSE 0]
    /\ wrappers = g
    /\ actions_before = [a \in Actions |-> ListOf(g, a, "before", 1)]
    /\ actions_after = [a \in Actions |-> ListOf(g, a, "after", 1)]
    /\ rsc_flags = w.res.rflags
    /\ stack = <<>>
    /\ root = "a3"
    /\ ncalls = 0
    /\ diverged = FALSE
    /\ hist = HistInit(g)

Init == InitWorld(PseudoWorld)

Spec == Init /\ [][Next]_vars

\* the resolver on actions of resources
InitRsc == InitWorld(MixedWorld) \/ InitWorld(GroupWorld)

SpecRsc == InitRsc /\ [][Next]_vars

\* a1 is the stop action of a group r1 that is running and has no other
\* action, so that the expansion of a1 finds no "stopped" action; rf are
\* the flags of r1; a2 has no resource; a3 is the start of the primitive
\* r2, or has no resource when r3 is NoRsc
StopWorld(rf, r3) ==
  [rsc |-> [a \in Actions |->
              CASE a = "a1" -> "r1" [] a = "a2" -> NoRsc [] OTHER -> r3],
   node |-> [a \in Actions |-> IF a = "a2" THEN "n2" ELSE "n1"],
   uuid |-> [a \in Actions |->
               CASE a = "a1" -> pcmk__op_key("r1", "stop", 0)
                 [] a = "a3" /\ r3 # NoRsc -> pcmk__op_key(r3, "start", 0)
                 [] OTHER -> PseudoUuid],
   unrunnable_on |-> [a \in Actions |-> {}],
   res |-> [NoResources EXCEPT !.variant["r1"] = pe_group,
                               !.location["r1"] = "n1",
                               !.running_on["r1"] = TRUE,
                               !.rflags["r1"] = rf],
   core |-> [a \in Actions |-> CoreChoices],
   required |-> {0},
   edges |-> {Edge("a1", "a3", {"IMPLIES_THEN"}),
              Edge("a1", "a3", {"IMPLIES_FIRST"}),
              Edge("a1", "a3", {"RESTART"}),
              Edge("a1", "a3", {"PROBE"}),
              Edge("a2", "a3", {"ONE_OR_MORE"}),
              Edge("a2", "a3", {"RUNNABLE_LEFT"}),
              Edge("a3", "a2", {"IMPLIES_THEN"})}]

\* the resolver after a stop action of a group, managed or unmanaged and
\* blocked
InitStop ==
  \E rf \in {{"MANAGED"}, {"BLOCK"}} :
  \E r3 \in {NoRsc, "r2"} : InitWorld(StopWorld(rf, r3))

SpecStop == InitStop /\ [][Next]_vars

\* a1 is the start action of a group r1 located on loc and is itself bound
\* to own (a node or none); a2 is another action of r1, its running action
\* or its stop action, on n2; a3 is the start of the primitive r2 on n1
NodeWorld(own, loc, task2) ==
  [rsc |-> [a \in Actions |-> IF a = "a3" THEN "r2" ELSE "r1"],
   node |-> [a \in Actions |->
               CASE a = "a1" -> own [] a = "a2" -> "n2" [] OTHER -> "n1"],
   uuid |-> [a \in Actions |->
               CASE a = "a1" -> pcmk__op_key("r1", "start", 0)
                 [] a = "a2" -> pcmk__op_key("r1", task2, 0)
                 [] OTHER -> pcmk__op_key("r2", "start", 0)],
   unrunnable_on |-> [a \in Actions |-> {}],
   res |-> [NoResources EXCEPT !.variant["r1"] = pe_group,
                               !.location["r1"] = loc],
   core |-> [a \in Actions |->
               IF a = "a2" THEN {{"RUNNABLE"}, {"OPTIONAL", "RUNNABLE"}}
               ELSE CoreChoices],
   required |-> {0},
   edges |-> {Edge("a1", "a3", {"SAME_NODE", "IMPLIES_THEN"}),
              Edge("a1", "a3", {"SAME_NODE", "THEN_CANCELS_FIRST"}),
              Edge("a2", "a3", {"SAME_NODE", "RUNNABLE_LEFT"}),
              Edge("a2", "a3", {"SAME_NODE", "THEN_CANCELS_FIRST"}),
              Edge("a2", "a3", {"IMPLIES_FIRST"}),
              Edge("a2", "a3", {"IMPLIES_THEN_ON_NODE"}),
              Edge("a3", "a1", {"SAME_NODE", "IMPLIES_THEN"})}]

\* the resolver on orderings that apply on one node only
InitNode ==
  \E own \in Nodes \cup {NoNode} :
  \E loc \in Nodes :
  \E task2 \in {"running", "stop"} : InitWorld(NodeWorld(own, loc, task2))

SpecNode == InitNode /\ [][Next]_vars

\* a1 is an action of the primitive r1, its reload or its start, and r1 has
\* a reload pending; a2 and a3 have no resource
CancelWorld(task1) ==
  [rsc |-> [a \in Actions |-> IF a = "a1" THEN "r1" ELSE NoRsc],
   node |-> [a \in Actions |-> "n1"],
   uuid |-> [a \in Actions |->
               IF a = "a1" THEN pcmk__op_key("r1", task1, 0) ELSE PseudoUuid],
   unrunnable_on |-> [a \in Actions |-> {}],
   res |-> [NoResources EXCEPT !.rflags["r1"] = {"MANAGED", "RELOAD"}],
   core |-> [a \in Actions |-> CoreChoices],
   required |-> {0},
   edges |-> {Edge("a1", "a3", {"THEN_CANCELS_FIRST"}),
              Edge("a1", "a3", {"THEN_CANCELS_FIRST", "IMPLIES_THEN"}),
              Edge("a2", "a3", {"THEN_CANCELS_FIRST"}),
              Edge("a2", "a3", {"THEN_CANCELS_FIRST", "IMPLIES_FIRST"}),
              Edge("a3", "a2", {"IMPLIES_THEN"}),
              Edge("a3", "a1", {"THEN_CANCELS_FIRST"})}]

\* the resolver on orderings that cancel their first
InitCancel ==
  \E task1 \in {"reload-agent", "start"} : InitWorld(CancelWorld(task1))

SpecCancel == InitCancel /\ [][Next]_vars

\* the kinds whose rules act on an edge between actions without a resource
RuleOrderKinds ==
  {"IMPLIES_THEN", "IMPLIES_FIRST", "ONE_OR_MORE", "RUNNABLE_LEFT",
   "IMPLIES_THEN_PRINTED", "IMPLIES_FIRST_PRINTED", "IMPLIES_THEN_ON_NODE"}

\* one edge a1->a3 that carries any kinds of OrderKinds, a2 apart
OrderWorld ==
  [PseudoWorld EXCEPT
     !.core = [a \in Actions |-> IF a = "a2" THEN {{"OPTIONAL"}} ELSE CoreChoices],
     !.edges = {Edge("a1", "a3", k) : k \in (SUBSET RuleOrderKinds) \ {{}}}]

InitOrder == InitWorld(OrderWorld)

SpecOrder == InitOrder /\ [][Next]_vars

----------------------------------------------------------------------------
(* The expansion alone: the identifier of the root action is converted,    *)
(* then the root action is expanded and the result expanded once more.     *)

ExpandTasks == {"start", "running", "stop", "stopped", "notified", "promote",
                "promoted", "demote", "demoted", "monitor", "shutdown",
                "fence", "reload-agent"}

PeerTasks == {"start", "running", "stopped", "promoted", "demoted", "notified",
              "notify"}

PostTasks == {"running", "stopped", "promoted"}

Intervals == {0, 10}

\* the three actions belong to r1: a1 is any operation, a2 an operation a1
\* may expand to, a3 a completed operation or a confirmed-post notification
InitExpand ==
  \E t1 \in ExpandTasks, t2 \in PeerTasks, t3 \in PostTasks :
  \E iv \in Intervals, variant \in {pe_native, pe_group, pe_clone} :
  \E notify \in BOOLEAN, named \in BOOLEAN, bundled \in BOOLEAN :
  \E form3 \in {"op", "confirmed-post"} :
    /\ world = [rsc |-> [a \in Actions |-> "r1"],
                node |-> [a \in Actions |-> NoNode],
                uuid |-> [a \in Actions |->
                            CASE a = "a1" -> pcmk__op_key("r1", t1, iv)
                              [] a = "a2" -> pcmk__op_key("r1", t2, 0)
                              [] OTHER -> IF form3 = "op"
                                            THEN pcmk__op_key("r1", t3, 0)
                                            ELSE pcmk__notify_key("r1", form3, t3)],
                unrunnable_on |-> [a \in Actions |-> {}],
                required_on |-> [a \in Actions |-> {}],
                variant |-> [r \in Resources |->
                               IF r = "r1" THEN variant ELSE pe_container],
                parent |-> [r \in Resources |->
                              IF r = "r1" /\ bundled THEN "r2" ELSE NoRsc],
                location |-> [r \in Resources |-> NoNode],
                running_on |-> [r \in Resources |-> FALSE],
                notify_named |-> IF named THEN {"r1"} ELSE {}]
    /\ flags = [a \in Actions |-> {}]
    /\ runnable_before = [a \in Actions |-> 0]
    /\ required_runnable_before = [a \in Actions |-> 0]
    /\ wrappers = <<>>
    /\ actions_before = [a \in Actions |-> <<>>]
    /\ actions_after = [a \in Actions |-> <<>>]
    /\ rsc_flags = [r \in Resources |->
                      IF r = "r1" /\ notify THEN {"MANAGED", "NOTIFY"}
                      ELSE {"MANAGED"}]
    /\ stack = <<>>
    /\ root = "a1"
    /\ ncalls = 0
    /\ diverged = FALSE
    /\ hist = HistInit(<<>>)

\* convert_non_atomic_uuid(root->uuid, root->rsc, allow_notify, FALSE)
Convert ==
  /\ hist.stage = "given"
  /\ \E allow \in BOOLEAN :
       hist' = [hist EXCEPT
                  !.stage = "converted", !.allow = allow,
                  !.converted = convert_non_atomic_uuid(world.uuid[root],
                                                        RscOf(root), allow)]
  /\ UNCHANGED <<world, flags, runnable_before, required_runnable_before,
                 wrappers, actions_before, actions_after, rsc_flags, stack,
                 root, ncalls, diverged>>

\* rsc_expand_action(root)
Expand ==
  /\ hist.stage = "converted"
  /\ hist' = [hist EXCEPT !.stage = "once", !.once = rsc_expand_action(root)]
  /\ UNCHANGED <<world, flags, runnable_before, required_runnable_before,
                 wrappers, actions_before, actions_after, rsc_flags, stack,
                 root, ncalls, diverged>>

\* rsc_expand_action of the action the first expansion returned
ExpandAgain ==
  /\ hist.stage = "once"
  /\ hist' = [hist EXCEPT !.stage = "twice",
                          !.twice = rsc_expand_action(hist.once)]
  /\ UNCHANGED <<world, flags, runnable_before, required_runnable_before,
                 wrappers, actions_before, actions_after, rsc_flags, stack,
                 root, ncalls, diverged>>

NextExpand ==
  \/ Convert
  \/ Expand
  \/ ExpandAgain

SpecExpand == InitExpand /\ [][NextExpand]_vars

----------------------------------------------------------------------------
(* The flags for ordering alone: action_flags_for_ordering is called on    *)
(* the root action, an action of r1 or an action without a resource.       *)

InitFlags ==
  \E rsc \in {"r1", NoRsc}, variant \in {pe_native, pe_group, pe_clone} :
  \E fl \in SUBSET {"OPTIONAL", "RUNNABLE", "PRINT_ALWAYS"} :
  \E unrunnable \in SUBSET Nodes, required \in SUBSET Nodes :
    /\ world = [rsc |-> [a \in Actions |-> IF a = "a1" THEN rsc ELSE NoRsc],
                node |-> [a \in Actions |-> NoNode],
                uuid |-> [a \in Actions |-> PseudoUuid],
                unrunnable_on |-> [a \in Actions |->
                                     IF a = "a1" THEN unrunnable ELSE {}],
                required_on |-> [a \in Actions |->
                                   IF a = "a1" THEN required ELSE {}],
                variant |-> [r \in Resources |-> variant],
                parent |-> NoResources.parent,
                location |-> NoResources.location,
                running_on |-> NoResources.running_on,
                notify_named |-> {}]
    /\ flags = [a \in Actions |-> IF a = "a1" THEN fl ELSE {"PSEUDO"}]
    /\ runnable_before = [a \in Actions |-> 0]
    /\ required_runnable_before = [a \in Actions |-> 0]
    /\ wrappers = <<>>
    /\ actions_before = [a \in Actions |-> <<>>]
    /\ actions_after = [a \in Actions |-> <<>>]
    /\ rsc_flags = NoResources.rflags
    /\ stack = <<>>
    /\ root = "a1"
    /\ ncalls = 0
    /\ diverged = FALSE
    /\ hist = HistInit(<<>>)

\* action_flags_for_ordering(root, node)
Query ==
  /\ hist.stage = "given"
  /\ \E node \in Nodes \cup {NoNode} :
       hist' = [hist EXCEPT
                  !.stage = "queried", !.peer = node,
                  !.effective = action_flags_for_ordering(flags, root, node)]
  /\ UNCHANGED <<world, flags, runnable_before, required_runnable_before,
                 wrappers, actions_before, actions_after, rsc_flags, stack,
                 root, ncalls, diverged>>

NextFlags == Query

SpecFlags == InitFlags /\ [][NextFlags]_vars

----------------------------------------------------------------------------
(* Date expressions (lib/common/rules.c).  Times are whole seconds; the    *)
(* expression, the time of the evaluation and the caller's next_change are *)
(* the inputs, the return code and next_change are the outputs.            *)

MaxTime == 3

Times == 0..MaxTime

\* crm_time_compare(a, b) < 0, on whole seconds
Earlier(a, b) == a < b

\* crm_time_add_seconds(t, n)
crm_time_add_seconds(t, n) == t + n

\* pcmk__set_time_if_earlier(target, source): the value of *target after it
pcmk__set_time_if_earlier(target, source) ==
  IF /\ target # NullTime /\ source # NullTime
     /\ (target = UndefinedTime \/ Earlier(source, target))
    THEN source
    ELSE target

\* pcmk__xe_get_datetime(xml, attr, &t): the return code is OK unless the
\* attribute is there and does not parse; t stays NULL unless it parses
DatetimeOk(v) == v # InvalidTime

Datetime(v) == IF v = InvalidTime THEN NullTime ELSE v

\* pcmk__unpack_duration(duration, start, &end): the value of end
pcmk__unpack_duration(duration, start) ==
  IF start = NullTime \/ duration = NullTime
    THEN NullTime
    ELSE crm_time_add_seconds(start, duration)

Verdict(rc, next_change) == [rc |-> rc, next_change |-> next_change]

\* the function with the end of the range outside the range
evaluate_in_range_OpenEnd(x, now, next_change) ==
  LET start == Datetime(x.start)
      end0  == Datetime(x.end)
  IN  IF start = NullTime /\ end0 = NullTime
        THEN Verdict("undetermined", next_change)
        ELSE LET end == IF end0 = NullTime /\ x.duration # NullTime
                          THEN pcmk__unpack_duration(x.duration, start)
                          ELSE end0
             IN  IF start # NullTime /\ Earlier(now, start)
                   THEN Verdict("before_range",
                                pcmk__set_time_if_earlier(next_change, start))
                   ELSE IF end # NullTime /\ ~Earlier(now, end)
                     THEN Verdict("after_range", next_change)
                     ELSE IF end # NullTime /\ next_change # NullTime
                       THEN Verdict("within_range",
                                    pcmk__set_time_if_earlier(next_change,
                                       crm_time_add_seconds(end, 1)))
                       ELSE Verdict("within_range", next_change)

evaluate_in_range(x, now, next_change) ==
  LET start == Datetime(x.start)
      end0  == Datetime(x.end)
  IN  IF start = NullTime /\ end0 = NullTime
        THEN Verdict("undetermined", next_change)
        ELSE LET end == IF end0 = NullTime /\ x.duration # NullTime
                          THEN pcmk__unpack_duration(x.duration, start)
                          ELSE end0
             IN  IF start # NullTime /\ Earlier(now, start)
                   THEN Verdict("before_range",
                                pcmk__set_time_if_earlier(next_change, start))
                   ELSE IF end # NullTime /\ Earlier(end, now)
                     THEN Verdict("after_range", next_change)
                     ELSE IF end # NullTime /\ next_change # NullTime
                       THEN Verdict("within_range",
                                    pcmk__set_time_if_earlier(next_change,
                                       crm_time_add_seconds(end, 1)))
                       ELSE Verdict("within_range", next_change)

\* the function with next_change set to the start time itself
evaluate_gt_AtStart(x, now, next_change) ==
  IF ~DatetimeOk(x.start) \/ x.start = NullTime
    THEN Verdict("undetermined", next_change)
    ELSE IF Earlier(x.start, now)
      THEN Verdict("within_range", next_change)
      ELSE Verdict("before_range",
                   pcmk__set_time_if_earlier(next_change, x.start))

evaluate_gt(x, now, next_change) ==
  IF ~DatetimeOk(x.start) \/ x.start = NullTime
    THEN Verdict("undetermined", next_change)
    ELSE IF Earlier(x.start, now)
      THEN Verdict("within_range", next_change)
      ELSE Verdict("before_range",
                   pcmk__set_time_if_earlier(next_change,
                      crm_time_add_seconds(x.start, 1)))

\* the function with the end itself still within the range
evaluate_lt_Inclusive(x, now, next_change) ==
  IF ~DatetimeOk(x.end) \/ x.end = NullTime
    THEN Verdict("undetermined", next_change)
    ELSE IF ~Earlier(x.end, now)
      THEN Verdict("within_range",
                   pcmk__set_time_if_earlier(next_change, x.end))
      ELSE Verdict("after_range", next_change)

evaluate_lt(x, now, next_change) ==
  IF ~DatetimeOk(x.end) \/ x.end = NullTime
    THEN Verdict("undetermined", next_change)
    ELSE IF Earlier(now, x.end)
      THEN Verdict("within_range",
                   pcmk__set_time_if_earlier(next_change, x.end))
      ELSE Verdict("after_range", next_change)

\* crm_element_value(date_expression, PCMK_XA_OPERATION) == NULL
NoOperation == "no_operation"

\* pcmk__evaluate_date_expression for the operations on dates other than
\* date_spec; an expression without operation is an in_range expression
pcmk__evaluate_date_expression(x, now, next_change) ==
  CASE x.op \in {"in_range", NoOperation} -> evaluate_in_range(x, now, next_change)
    [] x.op = "gt" -> evaluate_gt(x, now, next_change)
    [] x.op = "lt" -> evaluate_lt(x, now, next_change)
    [] OTHER -> Verdict("undetermined", next_change)

DateOperations == {"in_range", "gt", "lt"}

\* no operation, and a name that is no operation
OtherOperations == {NoOperation, "eq"}

\* the durations of an in_range expression: none, or a number of seconds
Durations == {NullTime, 0, 2}

\* an expression, a time and a next_change; the resolver's variables are
\* idle
InitDate ==
  \E op \in DateOperations \cup OtherOperations :
  \E start \in Times \cup {NullTime, InvalidTime} :
  \E end \in Times \cup {NullTime, InvalidTime} :
  \E duration \in Durations :
  \E now \in Times :
  \E next_change \in 0..(MaxTime + 1) \cup {NullTime, UndefinedTime} :
    /\ world = [op |-> op, start |-> start, end |-> end,
                duration |-> duration, now |-> now,
                next_change |-> next_change]
    /\ flags = [a \in Actions |-> {"PSEUDO"}]
    /\ runnable_before = [a \in Actions |-> 0]
    /\ required_runnable_before = [a \in Actions |-> 0]
    /\ wrappers = <<>>
    /\ actions_before = [a \in Actions |-> <<>>]
    /\ actions_after = [a \in Actions |-> <<>>]
    /\ rsc_flags = NoResources.rflags
    /\ stack = <<>>
    /\ root = "a1"
    /\ ncalls = 0
    /\ diverged = FALSE
    /\ hist = [HistInit(<<>>) EXCEPT !.next_change = next_change]

\* pcmk__evaluate_date_expression(date_expression, now, next_change)
EvaluateDate ==
  /\ hist.stage = "given"
  /\ LET v == pcmk__evaluate_date_expression(world, world.now, hist.next_change)
     IN  hist' = [hist EXCEPT !.stage = "evaluated", !.rc = v.rc,
                              !.next_change = v.next_change]
  /\ UNCHANGED <<world, flags, runnable_before, required_runnable_before,
                 wrappers, actions_before, actions_after, rsc_flags, stack,
                 root, ncalls, diverged>>

NextDate == EvaluateDate

SpecDate == InitDate /\ [][NextDate]_vars

----------------------------------------------------------------------------
(* Properties of the resolver *)

\* update_action(a) is about to return
Returning(a) == Running /\ Top.pc = "ret" /\ Top.then = a

\* the outermost update_action call has returned
Returned == Depth = 0 /\ ncalls > 0 /\ ~diverged

BeforeEdges(a) == {e \in 1..Len(wrappers) : wrappers[e].then = a}

\* the recursion stays below the bound of the model unless it never ends
DepthBoundNotReached == Depth < MaxDepth

\* C1: a call update(then) terminates: the chain of recursive update calls
\* is finite, the recursion never re-enters a call it can only repeat.
C1_Terminates == ~diverged

\* the edges that count towards the ONE_OR_MORE threshold of then
RunnableOneOrMore(then) ==
  {e \in BeforeEdges(then) :
     /\ "ONE_OR_MORE" \in wrappers[e].type
     /\ "RUNNABLE" \in action_flags_for_ordering(flags, wrappers[e].first,
                                                 NodeForOrdering(then))}

\* C2: when update(then) returns with RUNNABLE set on a REQUIRES_ANY action
\* without a resource, at least required_runnable_before distinct
\* ONE_OR_MORE predecessor edges have a runnable first.
C2_ThresholdMet ==
  \A a \in Actions :
    (/\ Returning(a)
     /\ "REQUIRES_ANY" \in flags[a]
     /\ RscOf(a) = NoRsc
     /\ "RUNNABLE" \in flags[a])
    => Cardinality(RunnableOneOrMore(a)) >= required_runnable_before[a]

\* C3: after update(a) returns, runnable_before of a is at most the number
\* of predecessor edges of a.
C3_CountBounded ==
  \A a \in Actions :
    Returning(a) => runnable_before[a] <= Cardinality(BeforeEdges(a))

\* C6: RUNNABLE is set on an action only by the ONE_OR_MORE rule of an edge
\* evaluation, on the edge's then, when runnable_before has reached
\* required_runnable_before.
C6_RunnableOnlyByOneOrMore ==
  [][\A a \in Actions :
       ("RUNNABLE" \notin flags[a] /\ "RUNNABLE" \in flags'[a])
       => /\ Running /\ Top.pc = "eval" /\ Top.then = a
          /\ "ONE_OR_MORE" \in wrappers[Top.lpc].type
          /\ runnable_before'[a] = Increment(runnable_before[a])
          /\ runnable_before'[a] >= required_runnable_before[a]]_vars

\* RUNNABLE has been set on an action that had lost it
C6_Witness == \E a \in hist.made_runnable : "RUNNABLE" \in flags[a] /\ Returned

\* C4: the only step that sets OPTIONAL on an action is the cancellation
\* step of an edge carrying THEN_CANCELS_FIRST whose then is non-optional,
\* and it sets it on the first of that edge.
C4_OptionalOnlyByCancel ==
  [][\A a \in Actions :
       ("OPTIONAL" \notin flags[a] /\ "OPTIONAL" \in flags'[a])
       => /\ Running /\ Top.pc = "cancel"
          /\ wrappers[Top.lpc].first = a
          /\ "THEN_CANCELS_FIRST" \in wrappers[Top.lpc].type
          /\ "OPTIONAL" \notin flags[Top.then]]_vars

\* the cancellation step has made a required action optional
C4_Witness == Returned /\ hist.made_optional # {} /\ hist.nset > 0

\* C5: across one call of update, the number of times OPTIONAL is set back
\* by THEN_CANCELS_FIRST is at most the number of THEN_CANCELS_FIRST edges.
C5_CancelBounded == Returned => hist.nset <= hist.cancel_edges

\* C7: when update(then) returns, no predecessor edge of then carries
\* SAME_NODE while its first and then are on distinct nodes.
C7_SameNodeFinal ==
  \A a \in Actions :
    Returning(a) => \A e \in BeforeEdges(a) : ~SameNodeMismatch(e)

\* C8: once the kind of an edge is NONE it is NONE in every later state.
C8_DisabledStaysDisabled ==
  [][\A e \in 1..Len(wrappers) :
       wrappers[e].type = pe_order_none => wrappers'[e].type = pe_order_none]_vars

\* an edge that was created with a kind has been disabled, and the resolver
\* has evaluated edges of then after that
C8_Witness ==
  /\ Returned /\ ncalls = MaxCalls
  /\ \E e \in 1..Len(wrappers) :
       wrappers[e].type = pe_order_none /\ hist.born[e] # pe_order_none

C11_SecondCallChangesNothing ==
  (Returned /\ ncalls >= 2) => Outcome = hist.settled

\* the evaluator is about to be called on the edge at lpc, whose kind is NONE
EvaluatesNone ==
  /\ Running /\ Top.pc = "eval"
  /\ wrappers[Top.lpc].type = pe_order_none
  /\ Expanded(wrappers[Top.lpc].first, Top.then) = wrappers[Top.lpc].first

\* C12: for an edge whose kind is NONE the evaluator changes no flag and no
\* counter, leaves the edge unchanged and returns empty change bits.
C12_NoneIsNoOp ==
  [][EvaluatesNone =>
       /\ graph_update_action(wrappers[Top.lpc].first, Top.then, NodeOf(Top.then),
             action_flags_for_ordering(flags, wrappers[Top.lpc].first,
                                       NodeForOrdering(Top.then)),
             action_flags_for_ordering(flags, Top.then,
                                       NodeForOrdering(wrappers[Top.lpc].first)),
             Top.lpc).changed = pe_graph_none
       /\ flags' = flags
       /\ runnable_before' = runnable_before
       /\ required_runnable_before' = required_runnable_before
       /\ wrappers' = wrappers
       /\ stack'[Depth].changed = Top.changed]_vars

\* the evaluator has been called on a disabled edge whose then is required
C12_Witness ==
  /\ Returned
  /\ \E e \in hist.none_seen : "OPTIONAL" \notin flags[wrappers[e].then]

\* C13: expanding the result of an expansion returns that result, and the
\* result is the action itself or another action of the same resource.
C13_ExpandIdempotent ==
  hist.stage = "twice" =>
    /\ hist.twice = hist.once
    /\ (hist.once = root \/ RscOf(hist.once) = RscOf(root))

\* an action was expanded to its confirmed-post notification, and expanded
\* once more
C13_Witness ==
  /\ hist.stage = "twice"
  /\ hist.once # root
  /\ world.uuid[hist.once].form = "confirmed-post"

\* the identifier of the root action is one that is converted
Convertible ==
  /\ world.variant[RscOf(root)] >= pe_group
  /\ world.uuid[root].interval = 0
  /\ ~ContainsNotify(world.uuid[root])

\* the task an expanded identifier names, "" when the task is not expanded
PostCompletion(t) ==
  CASE t = "start" -> "running"
    [] t = "stop" -> "stopped"
    [] t = "promote" -> "promoted"
    [] t = "demote" -> "demoted"
    [] t \in {"running", "stopped", "notified", "promoted", "demoted"} -> t
    [] OTHER -> ""

\* C14: on a resource of variant group or higher, with interval 0 and no
\* "notify" in the identifier, start, stop, promote and demote are expanded
\* to running, stopped, promoted and demoted, the completed tasks to
\* themselves, and every other task is not expanded; every other identifier
\* is returned unchanged.
C14_ConversionTable ==
  hist.stage # "given" =>
    LET old == world.uuid[root]
        new == hist.converted
    IN  IF Convertible /\ PostCompletion(old.task) # ""
          THEN /\ new.task = PostCompletion(old.task)
               /\ new.rid = old.rid
               /\ new.interval = 0
          ELSE new = old

\* the identifier of a start was converted to the one of running
C14_Witness ==
  /\ hist.stage = "converted"
  /\ Convertible
  /\ world.uuid[root].task = "start"
  /\ hist.converted.task = "running"

\* C16: the flags for ordering are the action's flags when it has no
\* resource, the result f0 of the resource method without a node when no
\* node is given or the resource is no clone, and otherwise the result f1
\* of the method with the node, with RUNNABLE added exactly when f0 has it:
\* the result differs from f1 in RUNNABLE at most and holds every flag of f1.
C16_EffectiveFlags ==
  hist.stage = "queried" =>
    LET f0 == ActionFlagsHook(flags, root, NoNode)
        f1 == ActionFlagsHook(flags, root, hist.peer)
        r  == hist.effective
    IN  IF RscOf(root) = NoRsc THEN r = flags[root]
        ELSE IF hist.peer = NoNode \/ ~pe_rsc_is_clone(RscOf(root)) THEN r = f0
        ELSE /\ r = IF "RUNNABLE" \in f0 THEN f1 \cup {"RUNNABLE"} ELSE f1
             /\ r \ {"RUNNABLE"} = f1 \ {"RUNNABLE"}
             /\ f1 \subseteq r

\* a clone action that is runnable somewhere, but not on the node given,
\* and is required on that node
C16_Witness ==
  /\ hist.stage = "queried"
  /\ RscOf(root) # NoRsc /\ pe_rsc_is_clone(RscOf(root))
  /\ hist.peer \in world.unrunnable_on[root] \cap world.required_on[root]
  /\ {"RUNNABLE", "OPTIONAL"} \subseteq flags[root]
  /\ hist.effective = flags[root] \ {"OPTIONAL"}

\* the enabled predecessor edges of then that IMPLIES_THEN leaves unsettled
ImpliesThenPending(then) ==
  {e \in BeforeEdges(then) :
     /\ "IMPLIES_THEN" \in wrappers[e].type
     /\ "OPTIONAL" \notin flags[wrappers[e].first]
     /\ "OPTIONAL" \in flags[then]}

\* the record the rules of the evaluator start from, for the edge at lpc
RuleInput ==
  RewriteOnNode([flags |-> flags, rb |-> runnable_before,
                 type |-> wrappers[Top.lpc].type,
                 otype |-> wrappers[Top.lpc].type, changed |-> pe_graph_none])

\* what the IMPLIES_THEN rule makes of RuleInput
AfterImpliesThen ==
  RuleImpliesThen(RuleInput, wrappers[Top.lpc].first, Top.then,
                  EvalNode(wrappers[Top.lpc].type, wrappers[Top.lpc].first,
                           NodeOf(Top.then)),
                  action_flags_for_ordering(flags, wrappers[Top.lpc].first,
                                            NodeForOrdering(Top.then)))

\* the evaluator is about to be called on the edge at lpc
Evaluates ==
  /\ Running /\ Top.pc = "eval"
  /\ Expanded(wrappers[Top.lpc].first, Top.then) = wrappers[Top.lpc].first

\* C17: when update(then) returns no enabled predecessor edge of then that
\* carries IMPLIES_THEN has a required first while then is optional, and
\* the IMPLIES_THEN rule changes RUNNABLE of neither first nor then.
C17_ImpliesThenSettled ==
  /\ \A a \in Actions : Returning(a) => ImpliesThenPending(a) = {}
  /\ Evaluates =>
       \A a \in {wrappers[Top.lpc].first, Top.then} :
         ("RUNNABLE" \in AfterImpliesThen.flags[a]) <=> ("RUNNABLE" \in flags[a])

----------------------------------------------------------------------------
(* Counting the runnable firsts of a REQUIRES_ANY action.                   *)

\* every predecessor edge of a is of kind ONE_OR_MORE and nothing else
OnlyOneOrMore(a) ==
  \A e \in BeforeEdges(a) : wrappers[e].type = {"ONE_OR_MORE"}

\* the predecessor edges of a whose first is runnable
RunnableFirsts(a) ==
  {e \in BeforeEdges(a) : "RUNNABLE" \in flags[wrappers[e].first]}

\* the case of C19 with k the number required: a REQUIRES_ANY action
\* without resource returns, its predecessor edges are ONE_OR_MORE only
\* and at least k of them have a runnable first
CountedCase(a, k) ==
  /\ Returning(a)
  /\ "REQUIRES_ANY" \in flags[a] /\ RscOf(a) = NoRsc
  /\ OnlyOneOrMore(a)
  /\ Cardinality(RunnableFirsts(a)) >= k

\* then.runnable_before counts the runnable firsts and then is runnable
Counted(a) ==
  /\ runnable_before[a] = Cardinality(RunnableFirsts(a))
  /\ "RUNNABLE" \in flags[a]

\* C19 as stated: with k the value of required_runnable_before when
\* update(then) is called and m >= k runnable firsts over ONE_OR_MORE
\* edges only, update(then) returns with runnable_before = m and RUNNABLE
\* set.
C19_CountsRunnableFirsts ==
  \A a \in Actions : CountedCase(a, Top.entry[3][a]) => Counted(a)

\* C19 amended: the same with k the number required after the preamble,
\* where a required number of 0 has become 1 (lines 455-457).
C19_CountsRunnableFirstsAtLeastOne ==
  \A a \in Actions : CountedCase(a, required_runnable_before[a]) => Counted(a)

\* C19 witness: then required two runnable firsts, was entered unrunnable
\* with a stale counter, and returns runnable with both counted
C19_Witness ==
  \E a \in Actions :
    /\ CountedCase(a, required_runnable_before[a])
    /\ required_runnable_before[a] = MaxRequired
    /\ "RUNNABLE" \notin Top.entry[1][a]
    /\ runnable_before[a] = MaxRequired /\ "RUNNABLE" \in flags[a]

----------------------------------------------------------------------------
(* An expansion whose lookup fails.                                         *)

\* lines 520-523 and 168: update_action asks for the expansion of raw and
\* raw belongs to a resource that is expanded
LookupAttempted(raw, then) ==
  /\ RscOf(raw) # NoRsc /\ RscOf(then) # NoRsc
  /\ RscOf(raw) # RscOf(then)
  /\ ~is_parent(RscOf(then), RscOf(raw))
  /\ world.variant[RscOf(raw)] >= pe_group

\* lines 155-175: no action of the resource of a has the converted
\* identifier
LookupFails(a) ==
  LET rsc == RscOf(a)
      notify == IF world.parent[rsc] = NoRsc
                   \/ (pe_rsc_is_clone(rsc)
                       /\ world.variant[world.parent[rsc]] = pe_container)
                  THEN "NOTIFY" \in rsc_flags[rsc]
                  ELSE FALSE
  IN  find_first_action(rsc, convert_non_atomic_uuid(world.uuid[a], rsc, notify))
        = NoAction

\* the loop is at an edge whose first is expanded and not found
FailedLookup ==
  /\ Running /\ Top.pc = "eval"
  /\ LookupAttempted(wrappers[Top.lpc].first, Top.then)
  /\ LookupFails(wrappers[Top.lpc].first)

\* the step evaluates the edge at lpc with its own first, attaches no edge,
\* and the loop goes on
EvaluatedAsGiven ==
  LET e    == Top.lpc
      then == Top.then
      raw  == wrappers[e].first
      s    == graph_update_action(raw, then, NodeOf(then),
                action_flags_for_ordering(flags, raw, NodeForOrdering(then)),
                action_flags_for_ordering(flags, then, NodeForOrdering(raw)), e)
  IN  /\ flags' = s.flags
      /\ runnable_before' = s.rb
      /\ wrappers' = [wrappers EXCEPT ![e].type =
                        IF "DISABLE" \in s.changed THEN pe_order_none ELSE s.otype]
      /\ actions_before' = actions_before /\ actions_after' = actions_after
      /\ Len(stack') = Len(stack) /\ ~diverged'
      /\ stack'[Len(stack)].first = raw
      /\ stack'[Len(stack)].pc \in {"filter", "first_after", "post"}

\* C15: when the converted identifier is not found among the actions of the
\* resource, the expansion returns the original action, the edge is
\* evaluated with the original action as if no expansion had been attempted,
\* and the update goes on.
C15_FailedLookupKeepsOriginal ==
  /\ [](\A a \in Actions :
          (RscOf(a) # NoRsc /\ LookupFails(a)) => rsc_expand_action(a) = a)
  /\ [][FailedLookup => EvaluatedAsGiven]_vars

\* C15 witness: update_action(a3) has returned after an edge whose first,
\* the stop of the group, was looked up in vain and was evaluated: a3 lost
\* RUNNABLE to the unrunnable stop
C15_Witness ==
  /\ Returned
  /\ \E e \in BeforeEdges("a3") :
       /\ LookupAttempted(wrappers[e].first, "a3")
       /\ LookupFails(wrappers[e].first)
       /\ wrappers[e].type = {"RESTART"}
       /\ "RUNNABLE" \notin flags[wrappers[e].first]
  /\ "RUNNABLE" \in hist.settled[1]["a3"]
  /\ "RUNNABLE" \notin flags["a3"]
  /\ Len(wrappers) = 1

----------------------------------------------------------------------------
(* The unrunnable stop of an unmanaged, blocked resource.                   *)

\* lines 397-404: first is a stop action, not runnable, of a resource that
\* is unmanaged and blocked
BlockedStop(first) ==
  /\ RscOf(first) # NoRsc
  /\ TaskOf(first) = "stop"
  /\ "MANAGED" \notin rsc_flags[RscOf(first)]
  /\ "BLOCK" \in rsc_flags[RscOf(first)]
  /\ "RUNNABLE" \notin flags[first]

\* the predecessor edges of then the rule of lines 397-414 applies to
BlockingEdges(then) ==
  {e \in BeforeEdges(then) :
     /\ wrappers[e].type \cap {"IMPLIES_THEN", "IMPLIES_FIRST", "RESTART"} # {}
     /\ BlockedStop(wrappers[e].first)}

\* C18: when update(then) returns and a predecessor edge of then carries
\* IMPLIES_THEN, IMPLIES_FIRST or RESTART and has as first an unrunnable
\* stop of an unmanaged, blocked resource, then is not runnable.
C18_BlockedStopBlocksThen ==
  \A a \in Actions :
    (Returning(a) /\ BlockingEdges(a) # {}) => "RUNNABLE" \notin flags[a]

----------------------------------------------------------------------------
(* The PROBE edge after a first that is being stopped.                      *)

\* the edges that were, when the call at the top of the stack began,
\* predecessor edges of a of kind PROBE with an unrunnable first whose
\* resource is running somewhere
StoppingProbes(a) ==
  {e \in 1..Len(Top.entry[4]) :
     /\ Top.entry[4][e].then = a
     /\ Top.entry[4][e].type = {"PROBE"}
     /\ "RUNNABLE" \notin Top.entry[1][Top.entry[4][e].first]
     /\ RunningSomewhere(Top.entry[4][e].first)}

\* the evaluator is about to be called on such an edge
EvaluatesStoppingProbe ==
  /\ Evaluates
  /\ RscOf(Top.then) # NoRsc
  /\ wrappers[Top.lpc].type = {"PROBE"}
  /\ "RUNNABLE" \notin action_flags_for_ordering(flags, wrappers[Top.lpc].first,
                                                NodeForOrdering(Top.then))
  /\ RunningSomewhere(wrappers[Top.lpc].first)

----------------------------------------------------------------------------
(* The same-node filter and the start action of a group.                    *)

\* a is the start action of a group
GroupStart(a) ==
  /\ RscOf(a) # NoRsc /\ world.variant[RscOf(a)] = pe_group
  /\ TaskOf(a) = "start"

\* edge e is a SAME_NODE edge from the start action of a group to an
\* action assigned to the node the group reports as its location
OnGroupLocation(e, first, then) ==
  /\ "SAME_NODE" \in e.type
  /\ GroupStart(first) /\ ~GroupStart(then)
  /\ location(RscOf(first)) # NoNode
  /\ location(RscOf(first)) = NodeOf(then)

FiltersOnGroupLocation ==
  /\ Running /\ Top.pc = "filter"
  /\ OnGroupLocation(wrappers[Top.lpc], wrappers[Top.lpc].first, Top.then)

----------------------------------------------------------------------------
(* PRINT_ALWAYS and the fixed point.                                        *)

\* since the call at the top of the stack began, PRINT_ALWAYS has been set
\* on some action and no other flag of any action differs
PrintAlwaysOnly ==
  /\ flags # Top.entry[1]
  /\ \A a \in Actions :
       flags[a] \ {"PRINT_ALWAYS"} = Top.entry[1][a] \ {"PRINT_ALWAYS"}

\* C22: a call of update in which the evaluations reported no change and
\* the only flags that changed are PRINT_ALWAYS flags makes no recursive
\* call of update when its loop is over, also for a REQUIRES_ANY action.
C22_PrintAlwaysNoRecursion ==
  (Running /\ Top.pc = "post" /\ Top.changed = pe_graph_none /\ PrintAlwaysOnly)
    => "UPDATED_THEN" \notin PostChanged(Top)

----------------------------------------------------------------------------
(* next_change of a date expression.                                        *)

\* the return code of the expression at time t
ResultAt(t) == pcmk__evaluate_date_expression(world, t, NullTime).rc

\* the instant the claim names for the case the evaluation was in
NamedInstant ==
  CASE world.op \in {"in_range", NoOperation} /\ hist.rc = "before_range" -> Datetime(world.start)
    [] world.op \in {"in_range", NoOperation} /\ hist.rc = "within_range" ->
         crm_time_add_seconds(
           IF Datetime(world.end) # NullTime THEN world.end
           ELSE pcmk__unpack_duration(world.duration, Datetime(world.start)), 1)
    [] world.op = "gt" /\ hist.rc = "before_range" ->
         crm_time_add_seconds(world.start, 1)
    [] world.op = "lt" /\ hist.rc = "within_range" -> world.end
    [] OTHER -> NullTime

\* C23: the evaluation of a date expression never moves next_change later;
\* when it changes next_change, the new value is the instant named for the
\* case, and that is the first instant from now on at which the result of
\* the expression differs from the result now.
C23_NextChangeIsFirstDifference ==
  hist.stage = "evaluated" =>
    /\ world.next_change = NullTime => hist.next_change = NullTime
    /\ world.next_change \in Nat => hist.next_change \in 0..world.next_change
    /\ hist.next_change # world.next_change =>
         /\ hist.next_change = NamedInstant
         /\ hist.next_change > world.now
         /\ \A t \in world.now..(hist.next_change - 1) : ResultAt(t) = hist.rc
         /\ ResultAt(hist.next_change) # hist.rc

\* C23 witness: an in_range expression is evaluated within its range, which
\* ends by a duration, and next_change has moved from a later instant to
\* the second after the end
C23_Witness ==
  /\ hist.stage = "evaluated"
  /\ world.op = "in_range" /\ hist.rc = "within_range"
  /\ world.end = NullTime /\ world.duration > 0
  /\ world.next_change \in Nat
  /\ hist.next_change < world.next_change
  /\ hist.next_change = world.start + world.duration + 1

----------------------------------------------------------------------------
(* The evaluation of an IMPLIES_THEN_ON_NODE edge.                          *)

\* the evaluator is about to be called on an edge that carries
\* IMPLIES_THEN_ON_NODE
EvaluatesOnNode ==
  /\ Evaluates
  /\ "IMPLIES_THEN_ON_NODE" \in wrappers[Top.lpc].type

----------------------------------------------------------------------------
(* IMPLIES_FIRST on a first without a resource.                             *)

\* the evaluator is about to be called on an IMPLIES_FIRST edge whose first
\* has no resource
EvaluatesImpliesFirst ==
  /\ Evaluates
  /\ wrappers[Top.lpc].type = {"IMPLIES_FIRST"}
  /\ RscOf(wrappers[Top.lpc].first) = NoRsc

\* then is required and first is runnable
ThenRequiresFirst ==
  /\ "OPTIONAL" \notin flags[Top.then]
  /\ "RUNNABLE" \in flags[wrappers[Top.lpc].first]

\* C25: on an IMPLIES_FIRST edge whose first has no resource the
\* evaluation clears first.RUNNABLE and reports UPDATED_FIRST exactly when
\* then is non-optional and first is runnable, and changes nothing when
\* then is optional.
C25_ImpliesFirstByThen ==
  [][EvaluatesImpliesFirst =>
       /\ ThenRequiresFirst <=>
            "RUNNABLE" \notin flags'[wrappers[Top.lpc].first]
              /\ "RUNNABLE" \in flags[wrappers[Top.lpc].first]
       /\ ThenRequiresFirst <=> stack'[Len(stack)].pc = "first_after"
       /\ "OPTIONAL" \in flags[Top.then] => flags' = flags]_vars

----------------------------------------------------------------------------
(* RUNNABLE_LEFT at the return of update_action.                            *)

\* the enabled RUNNABLE_LEFT predecessor edges of then whose first is not
\* runnable
UnrunnableLeft(then) ==
  {e \in BeforeEdges(then) :
     /\ "RUNNABLE_LEFT" \in wrappers[e].type
     /\ "RUNNABLE" \notin action_flags_for_ordering(flags, wrappers[e].first,
                                                   NodeForOrdering(then))}

\* C26: when update(then) returns with then runnable, no enabled
\* RUNNABLE_LEFT predecessor edge of then has an unrunnable first.
C26_RunnableLeftSettled ==
  \A a \in Actions :
    (Returning(a) /\ "RUNNABLE" \in flags[a]) => UnrunnableLeft(a) = {}

----------------------------------------------------------------------------
(* The cancellation step.                                                   *)

\* the loop is at the cancellation step of an edge that carries
\* THEN_CANCELS_FIRST
CancelStep ==
  /\ Running /\ Top.pc = "cancel"
  /\ "THEN_CANCELS_FIRST" \in wrappers[Top.lpc].type

\* the step makes first optional, cancels the pending reload of the
\* resource of first when first is its reload, and changes nothing else
CancelsFirst(first) ==
  /\ flags' = [flags EXCEPT ![first] = @ \cup {"OPTIONAL"}]
  /\ RscOf(first) # NoRsc =>
       rsc_flags' = IF TaskOf(first) = "reload-agent"
                      THEN [rsc_flags EXCEPT ![RscOf(first)] = @ \ {"RELOAD"}]
                      ELSE rsc_flags

\* the step sets no change bit and goes on to the expansion
NoChangeBit ==
  /\ Len(stack') = Len(stack)
  /\ stack'[Len(stack)].changed \subseteq Top.changed
  /\ stack'[Len(stack)].pc = "eval"
  /\ UNCHANGED <<runnable_before, required_runnable_before, wrappers>>

----------------------------------------------------------------------------
(* An edge disabled by the same-node filter.                                *)

\* the loop is at the filter with a SAME_NODE edge whose first and then
\* are on distinct nodes
FilterDisables ==
  /\ Running /\ Top.pc = "filter"
  /\ "SAME_NODE" \in wrappers[Top.lpc].type
  /\ NodeForOrdering(wrappers[Top.lpc].first) # NoNode
  /\ NodeForOrdering(Top.then) # NoNode
  /\ NodeForOrdering(wrappers[Top.lpc].first) # NodeForOrdering(Top.then)

\* C28: when the same-node filter disables an edge nothing else is done for
\* the edge in that iteration: no flag, no resource flag and no counter
\* changes, no edge is attached, no change bit is set, and the loop goes
\* on to the next edge without the cancellation, the expansion or the
\* evaluation.
C28_DisabledEdgeIsSkipped ==
  [][FilterDisables =>
       /\ wrappers' = [wrappers EXCEPT ![Top.lpc].type = pe_order_none]
       /\ UNCHANGED <<flags, rsc_flags, runnable_before,
                      required_runnable_before, actions_before, actions_after>>
       /\ Len(stack') = Len(stack)
       /\ stack'[Len(stack)] = Advance(Top)
       /\ stack'[Len(stack)].pc \in {"filter", "post"}
       /\ stack'[Len(stack)].lpc # Top.lpc]_vars

\* C28 witness: update_action(a3) has returned with a3 required; the
\* SAME_NODE edge from a2, which carried THEN_CANCELS_FIRST, is disabled
\* and a2, on another node, is still required
C28_Witness ==
  /\ Returned
  /\ "OPTIONAL" \notin flags["a3"]
  /\ \E e \in BeforeEdges("a3") :
       /\ wrappers[e].first = "a2"
       /\ hist.born[e] = {"SAME_NODE", "THEN_CANCELS_FIRST"}
       /\ wrappers[e].type = pe_order_none
  /\ "OPTIONAL" \notin flags["a2"]

----------------------------------------------------------------------------
(* The redirection of an ordering to the expanded first.                    *)

\* the loop is at an edge whose first expands to another action that is
\* not yet ordered before then
Redirects ==
  /\ Running /\ Top.pc = "eval"
  /\ Expanded(wrappers[Top.lpc].first, Top.then) # wrappers[Top.lpc].first
  /\ order_actions(Expanded(wrappers[Top.lpc].first, Top.then), Top.then,
                   wrappers[Top.lpc].type)

\* the redirection itself: the original edge is disabled, one edge is
\* attached and UPDATED_THEN is recorded
RedirectDisables ==
  [][Redirects =>
       /\ wrappers'[Top.lpc].type = pe_order_none
       /\ Len(wrappers') = Len(wrappers) + 1
       /\ "UPDATED_THEN" \in stack'[Len(stack)].changed]_vars

\* C29: after the expansion of first has yielded another action and a new
\* edge has been attached, with the original edge disabled and UPDATED_THEN
\* recorded, then is re-processed, the new edge with it, before the
\* outermost update(then) returns, also for a then with REQUIRES_ANY.
C29_RedirectReprocessed == Returned => hist.owe_then = {}

----------------------------------------------------------------------------
(* The re-processing of first after a report of UPDATED_FIRST.              *)

\* the evaluation of the edge at lpc reports UPDATED_FIRST
ReportsFirst ==
  /\ Evaluates
  /\ LET first == wrappers[Top.lpc].first
         then  == Top.then
     IN  "UPDATED_FIRST" \in
           graph_update_action(first, then, NodeOf(then),
             action_flags_for_ordering(flags, first, NodeForOrdering(then)),
             action_flags_for_ordering(flags, then, NodeForOrdering(first)),
             Top.lpc).changed

\* the innermost call is at the evaluation of an edge
AtEval == Running /\ Top.pc = "eval"

\* the call at depth d is re-processing for the edge it has just evaluated
Reprocessing(d) == d <= Depth /\ stack[d].pc = "first_after"

\* C30: a report of UPDATED_FIRST by the evaluation of an edge starts the
\* re-processing, update is run on every successor of first and on first
\* itself before the call moves on to its next edge, and an edge whose own
\* evaluation does not report UPDATED_FIRST starts no re-processing, whatever
\* an earlier edge reported.
C30_ReprocessFirstOnce ==
  /\ [][AtEval =>
          (ReportsFirst <=> stack'[Len(stack)].pc = "first_after")]_vars
  /\ [](\A p \in hist.owe_rerun : Reprocessing(p[1]))

\* an edge reported UPDATED_FIRST, the calls on the successors of first and
\* on first have been made and the loop is at a later edge of then
C30_Witness ==
  /\ Running /\ Top.pc = "ret" /\ Depth >= 2
  /\ stack[Depth - 1].pc \in {"filter", "post"}
  /\ stack[Depth - 1].first = Top.then
  /\ "UPDATED_FIRST" \in stack[Depth - 1].changed
  /\ Succs(Top.then) # {}
  /\ hist.owe_rerun = {}

----------------------------------------------------------------------------
(* The notification of the colocation subsystem.                            *)

\* the innermost call is at its postamble
AtPost == Running /\ Top.pc = "post"

\* then was runnable when the call began and is not after the edge loop
LostSinceEntry ==
  /\ "RUNNABLE" \in Top.entry[1][Top.then]
  /\ "RUNNABLE" \notin flags[Top.then]

\* the step calls pcmk__block_colocated_starts
Notifies == hist'.blocked = hist.blocked + 1

\* C31: pcmk__block_colocated_starts is called exactly by the postamble of
\* a call that has UPDATED_THEN set there and whose then was runnable at
\* entry and is not after the edge loop; it is called before the call
\* update_action(then) and before any call on a successor of then, and no
\* other step calls it.
C31_NotifiesOnLostRunnable ==
  [][/\ AtPost =>
          /\ Notifies <=> "UPDATED_THEN" \in PostChanged(Top) /\ LostSinceEntry
          /\ Notifies =>
                /\ stack'[Len(stack)].pc = "then_after"
                /\ stack'[Len(stack)].lpc2 = -1
                /\ diverged' \/ stack'[Len(stack')].then = Top.then
     /\ ~AtPost => hist'.blocked = hist.blocked]_vars

\* the colocation subsystem has been notified and the call on then that
\* follows has begun, no successor of then being recomputed yet
C31_Witness ==
  /\ Running /\ Depth >= 2 /\ Top.pc = "preamble"
  /\ stack[Depth - 1].pc = "then_after" /\ stack[Depth - 1].lpc2 = -1
  /\ stack[Depth - 1].then = Top.then
  /\ "RUNNABLE" \in stack[Depth - 1].last_flags
  /\ "RUNNABLE" \notin flags[Top.then]
  /\ Succs(Top.then) # {}
  /\ hist.blocked > 0

----------------------------------------------------------------------------
(* The snapshot last_flags of an action with REQUIRES_ANY.                  *)

\* the call is at its postamble and then, whose RUNNABLE the preamble has
\* cleared, is runnable again
RestoredRunnable ==
  /\ AtPost
  /\ "REQUIRES_ANY" \in flags[Top.then]
  /\ "RUNNABLE" \in flags[Top.then]

\* C32: an action with REQUIRES_ANY whose RUNNABLE, cleared by the
\* preamble, has been restored by ONE_OR_MORE during the edge loop counts
\* as changed in the postamble: UPDATED_THEN is set and update is called on
\* it again, its successors following.
C32_RestoredCountsAsChanged ==
  [][RestoredRunnable =>
       /\ "UPDATED_THEN" \in PostChanged(Top)
       /\ stack'[Len(stack)].pc = "then_after"]_vars

----------------------------------------------------------------------------
(* The order of the rules of the evaluator.                                 *)

\* the rule of graph_update_action for kind r
ApplyRule(r, s, first, then, node, first_flags, then_flags) ==
  CASE r = "IMPLIES_THEN" -> RuleImpliesThen(s, first, then, node, first_flags)
    [] r = "RESTART" -> RuleRestart(s, first, then, node, first_flags)
    [] r = "IMPLIES_FIRST" -> RuleImpliesFirst(s, first, then, node, first_flags)
    [] r = "PROMOTED_IMPLIES_FIRST" ->
         RulePromotedImpliesFirst(s, first, then, node, first_flags)
    [] r = "ONE_OR_MORE" -> RuleOneOrMore(s, first, then, node, first_flags)
    [] r = "PROBE" -> RuleProbe(s, first, then, node, first_flags)
    [] r = "RUNNABLE_LEFT" -> RuleRunnableLeft(s, first, then, node, first_flags)
    [] r \in {"IMPLIES_FIRST_MIGRATABLE", "PSEUDO_LEFT"} ->
         RuleDelegated(s, first, then, node, first_flags, r, {"OPTIONAL"})
    [] r \in {"OPTIONAL", "ASYMMETRICAL"} ->
         RuleDelegated(s, first, then, node, first_flags, r, {"RUNNABLE"})
    [] r = "IMPLIES_THEN_PRINTED" -> RuleImpliesThenPrinted(s, first, then, first_flags)
    [] r = "IMPLIES_FIRST_PRINTED" -> RuleImpliesFirstPrinted(s, first, then, then_flags)

\* the kinds in the order in which graph_update_action applies their rules
CodeOrder ==
  <<"IMPLIES_THEN", "RESTART", "IMPLIES_FIRST", "PROMOTED_IMPLIES_FIRST",
    "ONE_OR_MORE", "PROBE", "RUNNABLE_LEFT", "IMPLIES_FIRST_MIGRATABLE",
    "PSEUDO_LEFT", "OPTIONAL", "ASYMMETRICAL", "IMPLIES_THEN_PRINTED",
    "IMPLIES_FIRST_PRINTED">>

RECURSIVE ApplyRules(_, _, _, _, _, _, _)
ApplyRules(ord, s, first, then, node, first_flags, then_flags) ==
  IF ord = <<>> THEN s
  ELSE ApplyRules(Tail(ord),
                  ApplyRule(Head(ord), s, first, then, node, first_flags, then_flags),
                  first, then, node, first_flags, then_flags)

\* graph_update_action with the rules of the kinds applied in the order ord,
\* after the rewrite of IMPLIES_THEN_ON_NODE and before the test of the
\* blocked stop
EvaluateIn(ord, first, then, node0, first_flags, then_flags, order) ==
  LET type0 == wrappers[order].type
      node  == EvalNode(type0, first, node0)
      s0    == [flags |-> flags, rb |-> runnable_before, type |-> type0,
                otype |-> type0, changed |-> pe_graph_none]
  IN  RuleBlockedStop(ApplyRules(ord, RewriteOnNode(s0), first, then, node,
                                 first_flags, then_flags),
                      first, then)

\* the evaluation of the edge at lpc with the rules in the order ord
EvaluateEdgeIn(ord) ==
  LET first == wrappers[Top.lpc].first
      then  == Top.then
  IN  EvaluateIn(ord, first, then, NodeOf(then),
        action_flags_for_ordering(flags, first, NodeForOrdering(then)),
        action_flags_for_ordering(flags, then, NodeForOrdering(first)),
        Top.lpc)

\* the order of the code with the rules at places i and j exchanged
Swapped(ord, i, j) ==
  [k \in 1..Len(ord) |->
     IF k = i THEN ord[j] ELSE IF k = j THEN ord[i] ELSE ord[k]]

Orders == {Swapped(CodeOrder, i, j) : i, j \in 1..Len(CodeOrder)}

\* what an evaluation leaves: flags, counters, the edge's kind, change bits
EvalResult(s) == <<s.flags, s.rb, s.otype, s.changed>>

\* the rules in the order of the code are the evaluator
CodeOrderIsEvaluator ==
  Evaluates =>
    LET first == wrappers[Top.lpc].first
        then  == Top.then
    IN  EvaluateEdgeIn(CodeOrder) =
          graph_update_action(first, then, NodeOf(then),
            action_flags_for_ordering(flags, first, NodeForOrdering(then)),
            action_flags_for_ordering(flags, then, NodeForOrdering(first)),
            Top.lpc)

\* C33: the flags, the counters, the edge's kind and the change bits that
\* the evaluation of an edge leaves are the same whatever the order of the
\* rules of its kinds, the rewrite of IMPLIES_THEN_ON_NODE staying first.
C33_RuleOrderIrrelevant ==
  Evaluates =>
    \A ord \in Orders :
       EvalResult(EvaluateEdgeIn(ord)) = EvalResult(EvaluateEdgeIn(CodeOrder))

----------------------------------------------------------------------------
(* The counter runnable_before across calls of update_action.               *)

\* the innermost call is at its preamble
AtPreamble == Running /\ Top.pc = "preamble"

\* the edge being evaluated carries ONE_OR_MORE and its then has neither
\* REQUIRES_ANY nor a resource
EvaluatesOneOrMorePlain ==
  /\ Evaluates
  /\ "ONE_OR_MORE" \in wrappers[Top.lpc].type
  /\ "REQUIRES_ANY" \notin flags[Top.then]
  /\ RscOf(Top.then) = NoRsc

\* first is runnable for the ordering with then
FirstRunnable ==
  "RUNNABLE" \in action_flags_for_ordering(flags, wrappers[Top.lpc].first,
                                           NodeForOrdering(Top.then))

\* the counter of then after one more runnable first
CountedOnce ==
  IF runnable_before[Top.then] < MaxRunnableBefore
    THEN runnable_before[Top.then] + 1
    ELSE runnable_before[Top.then]

\* C34: runnable_before of an action goes down only in the preamble of
\* update on that action when it has REQUIRES_ANY, and then to 0; the
\* preamble on an action without REQUIRES_ANY leaves the counters alone.
\* On a then without REQUIRES_ANY and without a resource the ONE_OR_MORE
\* rule adds one for a runnable first and nothing otherwise in every call,
\* and then is runnable once the count has reached
\* required_runnable_before: the count accumulates across calls.
C34_CountAccumulates ==
  /\ [][\A a \in Actions :
          runnable_before'[a] < runnable_before[a] =>
            /\ AtPreamble /\ Top.then = a
            /\ "REQUIRES_ANY" \in flags[a]
            /\ runnable_before'[a] = 0]_vars
  /\ [][AtPreamble /\ "REQUIRES_ANY" \notin flags[Top.then] =>
          runnable_before' = runnable_before]_vars
  /\ [][EvaluatesOneOrMorePlain =>
          /\ runnable_before'[Top.then] =
                IF FirstRunnable THEN CountedOnce ELSE runnable_before[Top.then]
          /\ FirstRunnable
                /\ runnable_before'[Top.then] >= required_runnable_before[Top.then]
                => "RUNNABLE" \in flags'[Top.then]]_vars

\* an action without REQUIRES_ANY has counted more runnable firsts than it
\* has predecessor edges: the count of an earlier call was kept
C34_Witness ==
  \E a \in Actions :
    /\ "REQUIRES_ANY" \notin flags[a]
    /\ RscOf(a) = NoRsc
    /\ runnable_before[a] > Len(actions_before[a])
    /\ \A i \in 1..Len(actions_before[a]) :
          "ONE_OR_MORE" \in hist.born[actions_before[a][i]]

----------------------------------------------------------------------------
(* The return code of a date expression.                                    *)

\* an in_range expression has been evaluated
EvaluatedInRange ==
  hist.stage = "evaluated" /\ world.op \in {"in_range", NoOperation}

\* the start of the range, if one is given that parses
RangeStart == Datetime(world.start)

\* the end of the range: the one given if it parses, or else the start
\* plus the duration
RangeEnd ==
  IF Datetime(world.end) # NullTime THEN world.end
  ELSE pcmk__unpack_duration(world.duration, RangeStart)

BeforeStart == RangeStart # NullTime /\ world.now < RangeStart

AfterEnd == RangeEnd # NullTime /\ world.now > RangeEnd

\* C35 as stated: with a start or an end, in_range returns before_range
\* exactly when now is earlier than the start, after_range exactly when
\* there is an end and now is later than it, within_range otherwise; with
\* neither start nor end it returns undetermined.
C35_InRangeInclusive ==
  EvaluatedInRange =>
    IF RangeStart = NullTime /\ Datetime(world.end) = NullTime
      THEN hist.rc = "undetermined"
      ELSE /\ hist.rc = "before_range" <=> BeforeStart
           /\ hist.rc = "after_range" <=> AfterEnd
           /\ hist.rc = "within_range" <=> ~BeforeStart /\ ~AfterEnd

\* C35 amended: the start is tested first, so after_range is returned
\* exactly when there is an end, now is later than it and now is not
\* earlier than the start; both bounds are within the range.
C35_InRangeStartFirst ==
  EvaluatedInRange =>
    IF RangeStart = NullTime /\ Datetime(world.end) = NullTime
      THEN hist.rc = "undetermined"
      ELSE /\ hist.rc = "before_range" <=> BeforeStart
           /\ hist.rc = "after_range" <=> AfterEnd /\ ~BeforeStart
           /\ hist.rc = "within_range" <=> ~BeforeStart /\ ~AfterEnd

\* an expression whose end is earlier than its start has been evaluated at
\* a time between the two
C35_Witness ==
  /\ EvaluatedInRange
  /\ BeforeStart /\ AfterEnd
  /\ hist.rc = "before_range"

\* C36: gt returns within_range exactly when now is later than the start
\* and before_range otherwise; lt returns within_range exactly when now is
\* earlier than the end and after_range otherwise; without a bound that
\* parses both return undetermined, and so does an operation that is none
\* of in_range, date_spec, gt and lt.
C36_StrictComparisons ==
  hist.stage = "evaluated" =>
    /\ world.op = "gt" =>
         hist.rc = IF world.start \in {NullTime, InvalidTime} THEN "undetermined"
                   ELSE IF world.now > world.start THEN "within_range"
                   ELSE "before_range"
    /\ world.op = "lt" =>
         hist.rc = IF world.end \in {NullTime, InvalidTime} THEN "undetermined"
                   ELSE IF world.now < world.end THEN "within_range"
                   ELSE "after_range"
    /\ world.op \notin {"in_range", "date_spec", "gt", "lt", NoOperation} =>
         hist.rc = "undetermined"

\* an lt expression has been evaluated at its end, a gt expression would
\* be at its start
C36_Witness ==
  /\ hist.stage = "evaluated"
  /\ world.op = "lt" /\ world.now = world.end
  /\ hist.rc = "after_range"

====
